---- MODULE Spec2Model ----
(***************************************************************************)
(* Task scheduler of kt-ai-Studio: the single worker thread of TaskManager *)
(* (services/tasks/manager.py), the cancel / global-stop routes            *)
(* (routes/tasks.py), the backend wait of ComfyUIClient                    *)
(* (services/comfyui/client.py) and the batch supervisor                   *)
(* (services/tasks/batch.py), over the kt_ai_task table.                   *)
(*                                                                         *)
(* Two OS threads touch the table: the event-loop thread (routes and batch *)
(* coroutines, which are atomic between awaits with respect to each other) *)
(* and the worker thread.  Every action below is one database statement    *)
(* group of one thread (a query, or the writes up to a commit), so the     *)
(* interleavings TLC explores are the ones the two threads can produce.    *)
(*                                                                         *)
(* The worker holds its Task through a SQLAlchemy session created with     *)
(* autoflush=False and the default expire_on_commit=True (db/session.py):  *)
(* attribute reads come from the snapshot loaded last, writes stay pending *)
(* until commit, commit writes only the pending attributes and expires the *)
(* snapshot, refresh drops the pending writes and reloads the row.         *)
(***************************************************************************)
EXTENDS Integers, Sequences, FiniteSets, TLC

\* ------------------------------------------------------------------ bounds
MaxTasks == 2
MaxJobs == 1
MaxSampler == 1
MaxPlanSteps == 2
MaxNodes == 1
NItems == 2
MaxBatchTasks == 3
MaxPlayers == 2
MaxOrphans == 1
MaxViews == 2

\* ------------------------------------------------------- program constants
max_retries == 3

VARIABLES
    tasks,        \* kt_ai_task rows, indexed by id (1..Len)
    clock,        \* datetime.utcnow(), as a counter
    running,      \* TaskManager.running
    wpc,          \* position of the worker thread in _worker_loop
    wtask,        \* the worker's local `task` (an id, 0 when none)
    sess,         \* the worker session's view of that Task
    wpend,        \* entity writes pending in the worker session
    api,          \* the route the event loop is in the middle of
    job,          \* the backend's current job: none / active / interrupted
    retry_count,  \* wait_for_completion.retry_count
    last_node,    \* wait_for_completion.last_node (0 is None)
    timed_out,    \* time.time() - start_time > timeout in the current wait
    subs,         \* per Task, number of queue_prompt submissions made
    midx,         \* _handle_scene_merge: idx of the for loop
    mtotal,       \* _handle_scene_merge: total_steps
    videos,       \* kt_ai_video rows of the batch items
    players,      \* kt_ai_player rows of the batch items
    sup,          \* the batch supervisor coroutine
    scene,        \* the kt_ai_scene row of the SCENE_MERGE Task (task.scene)
    steps,        \* _handle_scene_merge: the plan, one entry per step
    merge_records,     \* _handle_scene_merge: step_index of the records so far
    current_img_path,  \* _handle_scene_merge: the image the next step edits
    nplayers,     \* _handle_scene_merge: len(players), the Scene's linked players
    merge_plan,   \* _handle_scene_merge: where `steps` came from
    orphans,      \* worker threads of earlier start() calls that are still alive
    views         \* run_gen_8views: views_done, views_json, last_progress

vars == <<tasks, clock, running, wpc, wtask, sess, wpend, api, job,
          retry_count, last_node, timed_out, subs, midx, mtotal,
          videos, players, sup, scene, steps, merge_records, current_img_path,
          nplayers, merge_plan, orphans, views>>

mergeLocals == <<steps, merge_records, current_img_path, nplayers, merge_plan>>
workerVars == <<wpc, wtask, sess, wpend, retry_count, last_node, timed_out,
                midx, mtotal, mergeLocals>>
entityVars == <<videos, players, scene>>

\* ---------------------------------------------------------------- helpers
TaskIds == 1..Len(tasks)

\* Task.task_type: the kinds whose handler only calls the text service, and
\* the kinds whose handler submits jobs to the generation backend
PromptKinds == {"GEN_PROMPT", "GEN_VIDEO_PROMPT"}
CallbackKinds == {"GEN_BASE", "GEN_VIDEO"}
BackendKinds == CallbackKinds \cup {"SCENE_MERGE"}

NewTask(kind, item, now) ==
    [task_type |-> kind, item |-> item, status |-> "queued", progress |-> 0,
     result_json |-> {}, error |-> "", created_at |-> now,
     started_at |-> FALSE, completed_at |-> FALSE]

BlankRow == NewTask("", 0, 0)

Expired == [loaded |-> FALSE, row |-> BlankRow, dirty |-> {}]

\* reading an attribute of an expired object loads every unloaded attribute
SLoad(s, dbrow) ==
    IF s.loaded THEN s
    ELSE [loaded |-> TRUE,
          row |-> [a \in DOMAIN dbrow |-> IF a \in s.dirty THEN s.row[a] ELSE dbrow[a]],
          dirty |-> s.dirty]

\* attribute assignment: pending until the next commit
SSet(s, upd) ==
    [s EXCEPT !.row = [a \in DOMAIN s.row |-> IF a \in DOMAIN upd THEN upd[a] ELSE s.row[a]],
              !.dirty = @ \cup DOMAIN upd]

\* db.commit(): UPDATE of the pending attributes only
SCommit(s, dbrow) ==
    [a \in DOMAIN dbrow |-> IF a \in s.dirty THEN s.row[a] ELSE dbrow[a]]

\* db.refresh(task): pending writes dropped, row reloaded
SRefresh(dbrow) == [loaded |-> TRUE, row |-> dbrow, dirty |-> {}]

\* "Global Stop" in task.result_json
HasStopTag(r) == "global_stop" \in r

Queued == {t \in TaskIds : tasks[t].status = "queued"}

\* fault: the query without its order_by
AnyQueued == Queued

\* .filter(status == "queued").order_by(created_at.asc()).first(); rows with
\* equal created_at come back in an order the query does not fix
OldestQueued == {t \in Queued : \A u \in Queued : tasks[t].created_at <= tasks[u].created_at}

\* int((val / max_val) * 100) capped at 99
PassThroughProgress(val, max_val) ==
    IF (val * 100) \div max_val < 99 THEN (val * 100) \div max_val ELSE 99

\* int((idx / total_steps) * 100)
MergeProgress(idx, total) == (idx * 100) \div total

\* image paths: NULL, scene.base_image_path, the file an earlier SCENE_MERGE
\* Task of the Scene left in merged_image_path, the output of step idx
NoPath == [src |-> "null", idx |-> 0]
Background == [src |-> "base", idx |-> 0]
EarlierMerge == [src |-> "earlier", idx |-> 0]
Artifact(idx) == [src |-> "step", idx |-> idx]

\* a Player before and after its GEN_BASE Task: status, and the view names
\* in views_json
DraftPlayer == [status |-> "draft", views_json |-> {}]
ReadyPlayer == [status |-> "ready", views_json |-> {}]

\* the locals of run_gen_8views outside a call: the view nodes reported
\* finished (views_done is their number), the views fetched into views_json,
\* self.last_progress, and new_node of the message being handled
DonePlayer == [status |-> "done", views_json |-> 1..MaxViews]
NoViews == [done |-> {}, json |-> {}, last_progress |-> 0, next |-> 0]

\* a Scene before its GEN_SCENE_BASE Task: base_image_path is NULL
DraftScene == [status |-> "draft", merged_image_path |-> NoPath,
               merged_prompts_json |-> <<>>]

\* a Scene whose base image exists and that was never merged
GeneratedScene == [status |-> "generated", merged_image_path |-> NoPath,
                   merged_prompts_json |-> <<>>]

\* the same Scene after an earlier SCENE_MERGE Task that completed
CompletedScene == [status |-> "completed", merged_image_path |-> EarlierMerge,
                   merged_prompts_json |-> <<0>>]

\* a step of the plan, by what the loop body finds for it: a player with an
\* image file, a player the Scene does not link, a player without any image
StepKinds == {"player", "unknown_player", "no_image"}

ApiIdle == [op |-> "none", t |-> 0, targets |-> {}]
SupIdle == [routine |-> "none", pc |-> "off", i |-> 0, stage |-> "", task |-> 0,
            success |-> FALSE, result_json |-> {}, skipped |-> ""]

\* ------------------------------------------------------------------- Init
InitNoEntities ==
    /\ tasks = <<>>
    /\ clock = 0
    /\ running = FALSE
    /\ wpc = "none"
    /\ wtask = 0
    /\ sess = Expired
    /\ wpend = {}
    /\ api = ApiIdle
    /\ job = "none"
    /\ retry_count = 0
    /\ last_node = 0
    /\ timed_out = FALSE
    /\ subs = <<>>
    /\ midx = 0
    /\ mtotal = 0
    /\ videos = [i \in 1..NItems |-> [prompt_pos |-> FALSE, status |-> "draft"]]
    /\ sup = SupIdle
    /\ steps = <<>>
    /\ merge_records = <<>>
    /\ current_img_path = NoPath
    /\ nplayers = 0
    /\ merge_plan = "none"
    /\ orphans = <<>>
    /\ views = NoViews

\* no Player has a base image yet
InitRest ==
    /\ InitNoEntities
    /\ players = [i \in 1..NItems |-> DraftPlayer]

Init ==
    /\ InitRest
    /\ scene = GeneratedScene

\* start_scene_merge accepts any Scene with a base image, merged before or not
InitAdapter ==
    /\ InitRest
    /\ scene \in {GeneratedScene, CompletedScene}

\* the entities as a handler may find them: each Player before or after its
\* GEN_BASE Task, the Scene before its GEN_SCENE_BASE Task, with its base
\* image, or merged
InitPrereq ==
    /\ InitNoEntities
    /\ players \in [1..NItems -> {DraftPlayer, ReadyPlayer}]
    /\ scene \in {DraftScene, GeneratedScene, CompletedScene}

\* ------------------------------------------------------ event-loop thread
\* TaskManager.start(), called by startup_event
Start ==
    /\ ~running /\ wpc = "none"
    /\ running' = TRUE
    /\ wpc' = "idle"
    /\ UNCHANGED <<tasks, clock, wtask, sess, wpend, api, job, retry_count, last_node,
                   timed_out, subs, midx, mtotal, videos, players, sup,
                   scene, mergeLocals, orphans, views>>

\* the event loop runs one route handler or one supervisor segment at a time:
\* a route starts when no route is in progress and the supervisor is at an await
LoopFree == api.op = "none" /\ sup.pc # "refresh"

\* datetime.utcnow() at an insert: later than at the insert before it, or the
\* same reading again when the clock has not ticked since
UtcNow == (IF tasks = <<>> THEN {} ELSE {clock}) \cup {clock + 1}

\* crud.create_task / db.add(models.Task(status="queued")); db.commit()
Insert(kind, item) ==
    /\ \E now \in UtcNow :
         /\ clock' = now
         /\ tasks' = Append(tasks, NewTask(kind, item, now))
    /\ subs' = Append(subs, 0)

Enqueue(kind) ==
    /\ LoopFree
    /\ Len(tasks) < MaxTasks
    /\ Insert(kind, 0)
    /\ UNCHANGED <<running, workerVars, api, job, entityVars, sup, orphans, views>>

EnqueueJob(kind) ==
    /\ LoopFree
    /\ Len(tasks) < MaxJobs
    /\ Insert(kind, 0)
    /\ UNCHANGED <<running, workerVars, api, job, entityVars, sup, orphans, views>>

\* ComfyUIClient.interrupt(): POST /interrupt, False when the backend is not
\* reached within 2 s; an interrupt that arrives stops the job in execution
Interrupt ==
    \/ job' = job
    \/ job = "active" /\ job' = "interrupted"

\* fault: the Task is marked failed whatever its status
CancelsAnyStatus(status) == TRUE

\* interrupt_task: `task.status in ['queued', 'running']`
CancelsStatus(status) == status \in {"queued", "running"}

\* interrupt_task, up to the status test: the interrupt signal, then
\* crud.get_task and `task.status in ['queued', 'running']`.  The signal has no
\* effect on the table, so it is taken in one step with the read that follows.
CancelRead(t) ==
    /\ LoopFree
    /\ Interrupt
    /\ api' = IF t \in TaskIds /\ CancelsStatus(tasks[t].status)
                THEN [op |-> "cancel", t |-> t, targets |-> {}]
                ELSE ApiIdle
    /\ UNCHANGED <<tasks, clock, running, workerVars, subs, entityVars, sup, orphans, views>>

\* interrupt_task: status, result_json, completed_at and db.commit()
CancelWrite ==
    /\ api.op = "cancel"
    /\ tasks' = [tasks EXCEPT ![api.t] =
                    [@ EXCEPT !.status = "failed", !.result_json = {"interrupted"},
                              !.completed_at = TRUE]]
    /\ api' = ApiIdle
    /\ UNCHANGED <<clock, running, workerVars, job, subs, entityVars, sup, orphans, views>>

\* fault: the stop marks every Task of the table
StopTargetsAll == TaskIds

\* stop_all_tasks: .filter(Task.status.in_(['queued', 'running'])).all()
StopTargets == {t \in TaskIds : tasks[t].status \in {"queued", "running"}}

\* stop_all_tasks, up to the query: interrupt(), clear_queue(), then the
\* query for the queued / running Tasks
StopRead ==
    /\ LoopFree
    /\ Interrupt
    /\ api' = [op |-> "stop", t |-> 0, targets |-> StopTargets]
    /\ UNCHANGED <<tasks, clock, running, workerVars, subs, entityVars, sup, orphans, views>>

\* stop_all_tasks: the loop over the Tasks read and db.commit()
StopWrite ==
    /\ api.op = "stop"
    /\ tasks' = [t \in TaskIds |->
                    IF t \in api.targets
                    THEN [tasks[t] EXCEPT !.status = "failed", !.result_json = {"global_stop"},
                                          !.completed_at = TRUE]
                    ELSE tasks[t]]
    /\ api' = ApiIdle
    /\ UNCHANGED <<clock, running, workerVars, job, subs, entityVars, sup, orphans, views>>

\* stop_all_tasks when the backend accepts the connection and never answers:
\* interrupt() gives up after its 2 s timeout, clear_queue() calls urlopen with
\* no timeout and does not return, inside an `async def` route
StopHangs ==
    /\ LoopFree
    /\ Interrupt
    /\ api' = [op |-> "clear_queue", t |-> 0, targets |-> {}]
    /\ UNCHANGED <<tasks, clock, running, workerVars, subs, entityVars, sup, orphans, views>>

\* ----------------------------------------------------------- worker thread
Kind == tasks[wtask].task_type
Item == tasks[wtask].item

\* the Player as the handler left it pending: _handle_gen_base assigns
\* base_image_path and status = "ready", _handle_gen_8views assigns views_json
\* from the final download and status = "done"
PendingPlayer(p) ==
    IF Kind = "GEN_8VIEWS" THEN [status |-> "done", views_json |-> views.json]
    ELSE [p EXCEPT !.status = "ready"]

\* db.commit() of the worker session: the Task's pending attributes and the
\* pending entity writes (player.status = "ready") go to the database
WorkerCommit(s) ==
    /\ tasks' = [tasks EXCEPT ![wtask] = SCommit(s, @)]
    /\ players' = [i \in 1..NItems |-> IF i \in wpend THEN PendingPlayer(players[i])
                                       ELSE players[i]]
    /\ wpend' = {}

\* _worker_loop: the query for the oldest queued Task
W_Select ==
    /\ wpc = "idle" /\ running
    /\ \E t \in OldestQueued :
         /\ wtask' = t
         /\ sess' = SRefresh(tasks[t])
    /\ wpc' = "claim"
    /\ UNCHANGED <<tasks, clock, running, wpend, api, job, retry_count, last_node,
                   timed_out, subs, midx, mtotal, entityVars, sup, mergeLocals,
                   orphans, views>>

\* _worker_loop: status = "running", started_at, progress = 0, db.commit()
ClaimUpdate == [status |-> "running", started_at |-> TRUE, progress |-> 0]

W_Claim ==
    /\ wpc = "claim"
    /\ WorkerCommit(SSet(sess, ClaimUpdate))
    /\ sess' = Expired
    /\ wpc' = "process"
    /\ UNCHANGED <<clock, running, wtask, api, job, retry_count, last_node,
                   timed_out, subs, midx, mtotal, videos, sup, scene, mergeLocals,
                   orphans, views>>

\* a handler raised: control goes to `except Exception as e` of _worker_loop
Raise ==
    /\ wpc' = "exc_refresh"
    /\ UNCHANGED <<tasks, clock, running, wtask, sess, wpend, api, job, retry_count,
                   last_node, timed_out, subs, midx, mtotal, entityVars, sup,
                   mergeLocals, orphans, views>>

\* task.progress = p; db.commit()
CommitProgress(p, next) ==
    /\ WorkerCommit(SSet(sess, [progress |-> p]))
    /\ sess' = Expired
    /\ wpc' = next
    /\ UNCHANGED <<clock, running, wtask, api, job, retry_count, last_node,
                   timed_out, subs, midx, mtotal, videos, sup, scene, mergeLocals,
                   orphans, views>>

\* _handle_gen_prompt: "Player not found", or progress = 10 and commit
W_GenPrompt10 ==
    /\ wpc = "process" /\ Kind = "GEN_PROMPT"
    /\ \/ Raise
       \/ CommitProgress(10, "gp_30")

\* _handle_gen_prompt: payload_json, progress = 30 and commit
W_GenPrompt30 ==
    /\ wpc = "gp_30"
    /\ CommitProgress(30, "gp_llm")

\* _handle_gen_prompt: generate_player_prompts raises, or progress = 80 is
\* committed and result_json, progress = 100 are left pending on return
W_GenPromptLLM ==
    /\ wpc = "gp_llm"
    /\ \/ Raise
       \/ /\ WorkerCommit(SSet(sess, [progress |-> 80]))
          /\ sess' = SSet(Expired, [result_json |-> {"output"}, progress |-> 100])
          /\ wpc' = "ok_refresh"
          /\ UNCHANGED <<clock, running, wtask, api, job, retry_count, last_node,
                         timed_out, subs, midx, mtotal, videos, sup,
                         scene, mergeLocals, orphans, views>>

\* _handle_gen_video_prompt: a precondition raises, or result_json and the
\* video's prompts are written and committed
W_GenVideoPrompt ==
    /\ wpc = "process" /\ Kind = "GEN_VIDEO_PROMPT"
    /\ \/ Raise
       \/ /\ WorkerCommit(SSet(sess, [result_json |-> {"output"}]))
          /\ videos' = [i \in 1..NItems |-> IF i = Item THEN [videos[i] EXCEPT !.prompt_pos = TRUE]
                                            ELSE videos[i]]
          /\ sess' = Expired
          /\ wpc' = "ok_refresh"
          /\ UNCHANGED <<clock, running, wtask, api, job, retry_count, last_node,
                         timed_out, subs, midx, mtotal, sup, scene, mergeLocals,
                         orphans, views>>

\* client.queue_prompt(workflow) followed by the entry of wait_for_completion
QueuePrompt ==
    /\ subs' = [subs EXCEPT ![wtask] = @ + 1]
    /\ job' = "active"
    /\ retry_count' = 0
    /\ last_node' = 0
    /\ timed_out' = FALSE
    /\ sess' = SLoad(sess, tasks[wtask])
    /\ wpc' = "wait"

\* run_gen_base / run_gen_video up to the submission: a precondition, the
\* upload or queue_prompt raises, or the job is submitted
W_Submit ==
    /\ wpc = "process" /\ Kind \in CallbackKinds
    /\ \/ Raise
       \/ /\ QueuePrompt
          /\ UNCHANGED <<tasks, clock, running, wtask, wpend, api, midx, mtotal,
                         entityVars, sup, mergeLocals, orphans, views>>

\* ------------------------------------------- ComfyUIClient.wait_for_completion
\* the callback the handler passed: _handle_gen_base / _handle_gen_video pass
\* progress_callback, _handle_scene_merge passes none
HasCallback == Kind \in CallbackKinds

\* progress_callback: db.refresh(task); status == 'failed' raises InterruptedError
CallbackRaises == HasCallback /\ tasks[wtask].status = "failed"

\* leaving the wait loop: its locals go out of scope
LeaveWait(next) ==
    /\ wpc' = next
    /\ retry_count' = 0
    /\ last_node' = 0
    /\ timed_out' = FALSE

\* fault: the except branch without the test of retry_count against max_retries
CaughtWithoutLimit ==
    /\ retry_count' = retry_count + 1
    /\ UNCHANGED <<wpc, last_node, timed_out>>

\* except (ConnectionResetError, WebSocketException, OSError): ws = None,
\* retry_count += 1, re-raise once retry_count > max_retries, else loop again.
\* InterruptedError and TimeoutError are subclasses of OSError.
CaughtAsConnectionError ==
    IF retry_count + 1 > max_retries
    THEN LeaveWait("exc_refresh")
    ELSE /\ retry_count' = retry_count + 1
         /\ UNCHANGED <<wpc, last_node, timed_out>>

\* a 'progress' message: callback('progress', data)
W_RecvProgress(val) ==
    /\ wpc = "wait" /\ ~timed_out /\ job = "active" /\ HasCallback
    /\ IF CallbackRaises
       THEN /\ CaughtAsConnectionError
            /\ sess' = SRefresh(tasks[wtask])
            /\ UNCHANGED <<tasks, players, wpend>>
       ELSE /\ WorkerCommit(SSet(SRefresh(tasks[wtask]),
                                 [progress |-> PassThroughProgress(val, MaxSampler)]))
            /\ sess' = Expired
            /\ UNCHANGED <<wpc, retry_count, last_node, timed_out>>
    /\ UNCHANGED <<clock, running, wtask, api, job, subs, midx, mtotal, videos, sup,
                   scene, mergeLocals, orphans, views>>

\* an 'executing' message of this prompt: node_finished for the node left,
\* then the end of the wait when the node is None (0)
W_RecvExecuting(node) ==
    /\ wpc = "wait" /\ ~timed_out
    /\ job = "active" \/ (job = "interrupted" /\ node = 0)
    /\ node = 0 \/ node # last_node
    /\ IF last_node # 0 /\ node # last_node /\ CallbackRaises
       THEN /\ CaughtAsConnectionError
            /\ sess' = SRefresh(tasks[wtask])
       ELSE /\ sess' = IF last_node # 0 /\ node # last_node /\ HasCallback
                       THEN SRefresh(tasks[wtask]) ELSE sess
            /\ IF node = 0
               THEN LeaveWait("post")
               ELSE /\ last_node' = node
                    /\ UNCHANGED <<wpc, retry_count, timed_out>>
    /\ UNCHANGED <<tasks, clock, running, wtask, wpend, api, job, subs, midx, mtotal,
                   entityVars, sup, mergeLocals, orphans, views>>

\* ws.connect / ws.recv fails
W_ConnError ==
    /\ wpc = "wait"
    /\ CaughtAsConnectionError
    /\ UNCHANGED <<tasks, clock, running, wtask, sess, wpend, api, job, subs, midx,
                   mtotal, entityVars, sup, mergeLocals, orphans, views>>

\* fault: a timeout that is retried like a connection error, without a limit
W_TimeoutRetried ==
    /\ wpc = "wait"
    /\ timed_out' = TRUE
    /\ UNCHANGED <<tasks, clock, running, wtask, sess, wpend, api, job, subs, midx,
                   mtotal, entityVars, sup, mergeLocals, wpc, retry_count, last_node,
                   orphans, views>>

\* time.time() - start_time > timeout: raise TimeoutError, inside the try
W_Timeout ==
    /\ wpc = "wait"
    /\ IF retry_count + 1 > max_retries
       THEN LeaveWait("exc_refresh")
       ELSE /\ retry_count' = retry_count + 1
            /\ timed_out' = TRUE
            /\ UNCHANGED <<wpc, last_node>>
    /\ UNCHANGED <<tasks, clock, running, wtask, sess, wpend, api, job, subs, midx,
                   mtotal, entityVars, sup, mergeLocals, orphans, views>>

\* get_history and download_outputs after the wait, then the handler's
\* bookkeeping of the result
W_PostFail ==
    /\ wpc = "post"
    /\ wpc' = "exc_refresh"
    /\ job' = "none"
    /\ UNCHANGED <<tasks, clock, running, wtask, sess, wpend, api, retry_count, last_node,
                   timed_out, subs, midx, mtotal, entityVars, sup, mergeLocals,
                   orphans, views>>

\* _handle_gen_base: player.base_image_path, player.status = "ready" and
\* task.result_json are assigned and left pending
W_PostGenBase ==
    /\ wpc = "post" /\ Kind = "GEN_BASE" /\ job = "active"
    /\ job' = "none"
    /\ wpend' = IF Item = 0 THEN wpend ELSE wpend \cup {Item}
    /\ sess' = SSet(sess, [result_json |-> {"output"}])
    /\ wpc' = "ok_refresh"
    /\ UNCHANGED <<tasks, clock, running, wtask, api, retry_count, last_node,
                   timed_out, subs, midx, mtotal, entityVars, sup, mergeLocals,
                   orphans, views>>

\* _handle_gen_video: video.status = "completed", result_json, progress = 100,
\* db.commit()
W_PostGenVideo ==
    /\ wpc = "post" /\ Kind = "GEN_VIDEO" /\ job = "active"
    /\ job' = "none"
    /\ WorkerCommit(SSet(sess, [result_json |-> {"output"}, progress |-> 100]))
    /\ videos' = [i \in 1..NItems |-> IF i = Item THEN [videos[i] EXCEPT !.status = "completed"]
                                      ELSE videos[i]]
    /\ sess' = Expired
    /\ wpc' = "ok_refresh"
    /\ UNCHANGED <<clock, running, wtask, api, retry_count, last_node,
                   timed_out, subs, midx, mtotal, sup, scene, mergeLocals,
                   orphans, views>>

\* ------------------------------------------------- the entity prerequisites
PrerequisiteKinds == {"GEN_8VIEWS", "SCENE_MERGE", "GEN_VIDEO"}

\* run_gen_8views: player.base_image_path, assigned together with status =
\* "ready" by _handle_gen_base; _handle_scene_merge: scene.base_image_path,
\* assigned together with status = "generated" by _handle_gen_scene_base;
\* run_gen_video: scene.merged_image_path
PrerequisiteMet ==
    CASE Kind = "GEN_8VIEWS" -> players[Item].status # "draft"
      [] Kind = "SCENE_MERGE" -> scene.status # "draft"
      [] Kind = "GEN_VIDEO" -> scene.merged_image_path # NoPath
      [] OTHER -> TRUE

\* fault: the test of the prerequisite placed after the submission
RaiseAfterSubmission ==
    /\ subs' = [subs EXCEPT ![wtask] = @ + 1]
    /\ wpc' = "exc_refresh"
    /\ UNCHANGED <<tasks, clock, running, wtask, sess, wpend, api, job, retry_count,
                   last_node, timed_out, midx, mtotal, entityVars, sup,
                   mergeLocals, orphans, views>>

\* `if not player.base_image_path: raise ValueError(...)` and its like, the
\* first statement after the entity is read
PrerequisiteRaise == Raise

W_PrerequisiteMissing ==
    /\ wpc = "process" /\ Kind \in PrerequisiteKinds
    /\ ~PrerequisiteMet
    /\ PrerequisiteRaise

\* POST /tasks/create with task_type GEN_8VIEWS: crud.create_task for the player
EnqueueViews(i) ==
    /\ LoopFree
    /\ Len(tasks) < MaxJobs
    /\ Insert("GEN_8VIEWS", i)
    /\ UNCHANGED <<running, workerVars, api, job, entityVars, sup, orphans, views>>

\* run_gen_8views with a base image: the file is missing or the upload or
\* queue_prompt raises, or the workflow is submitted and the locals of the
\* wait are set
W_SubmitViews ==
    /\ wpc = "process" /\ Kind = "GEN_8VIEWS"
    /\ \/ Raise
       \/ /\ subs' = [subs EXCEPT ![wtask] = @ + 1]
          /\ job' = "active"
          /\ views' = NoViews
          /\ retry_count' = 0
          /\ last_node' = 0
          /\ timed_out' = FALSE
          /\ wpc' = "views_wait"
          /\ UNCHANGED <<tasks, clock, running, wtask, sess, wpend, api, midx, mtotal,
                         entityVars, sup, mergeLocals, orphans>>

\* the nodes of wf_8views.json in 'executing' messages: None (0), the save
\* nodes of view_map (1..MaxViews), any other node
ViewNodes == 1..MaxViews
OtherNode == MaxViews + 1

\* internal_callback('node_finished'): `if node_id in view_map:`, else nothing
BranchFinished(node) == IF node \in ViewNodes THEN "views_fetch" ELSE "views_next"

\* wait_for_completion in run_gen_8views, an 'executing' message of this
\* prompt: a node that differs from last_node reports last_node finished; a
\* save node runs once in a job
W_ViewsExecuting(node) ==
    /\ wpc = "views_wait"
    /\ job = "active" \/ (job = "interrupted" /\ node = 0)
    /\ node # last_node
    /\ node \in ViewNodes => node \notin views.done
    /\ wpc' = IF last_node = 0 THEN "views_next" ELSE BranchFinished(last_node)
    /\ views' = [views EXCEPT !.next = node]
    /\ UNCHANGED <<tasks, clock, running, wtask, sess, wpend, api, job, retry_count,
                   last_node, timed_out, subs, midx, mtotal, entityVars, sup,
                   mergeLocals, orphans>>

\* fault: a failed direct download raises out of the callback
FetchFailureRaises == "exc_refresh"

\* `except Exception as e: print("Error handling incremental update ...")`
FetchFailureSkipped == "views_next"

\* node_finished of a save node: views_done += 1, then the direct download of
\* the view; a failure is printed and the branch is left out, else the view is
\* added to views_json and callback('view_generated') follows
W_ViewsFetch ==
    /\ wpc = "views_fetch"
    /\ \E fetched \in BOOLEAN :
         /\ views' = [views EXCEPT !.done = @ \cup {last_node},
                                   !.json = IF fetched THEN @ \cup {last_node} ELSE @]
         /\ wpc' = IF fetched THEN "views_publish" ELSE FetchFailureSkipped
    /\ UNCHANGED <<tasks, clock, running, wtask, sess, wpend, api, job, retry_count,
                   last_node, timed_out, subs, midx, mtotal, entityVars, sup,
                   mergeLocals, orphans>>

\* progress_callback('view_generated'): db.refresh(task), InterruptedError when
\* the Task is failed; else player.views_json and task.result_json are
\* assigned and committed.  The InterruptedError is caught by the callback's
\* own `except Exception`, which also skips the progress call that follows.
W_ViewsPublish ==
    /\ wpc = "views_publish"
    /\ IF tasks[wtask].status = "failed"
       THEN /\ sess' = SRefresh(tasks[wtask])
            /\ wpc' = "views_next"
            /\ UNCHANGED <<tasks, players, wpend>>
       ELSE /\ tasks' = [tasks EXCEPT ![wtask] =
                            SCommit(SSet(SRefresh(tasks[wtask]),
                                         [result_json |-> {"views_json"}]), @)]
            /\ players' = [players EXCEPT ![Item] = [@ EXCEPT !.views_json = views.json]]
            /\ wpend' = {}
            /\ sess' = Expired
            /\ wpc' = "views_progress"
    /\ UNCHANGED <<clock, running, wtask, api, job, retry_count, last_node, timed_out,
                   subs, midx, mtotal, videos, scene, sup, mergeLocals, orphans, views>>

\* min(max(p, 0), 99)
Clamp99(p) == IF p > 99 THEN 99 ELSE p

\* (self.views_done / total_views) * 100, as the int that is stored
ViewsDoneProgress == Clamp99((Cardinality(views.done) * 100) \div MaxViews)

\* progress_callback('progress') after view_generated: task.progress =
\* int(global_p) and commit, or the InterruptedError that is caught
W_ViewsPublishProgress ==
    /\ wpc = "views_progress"
    /\ IF tasks[wtask].status = "failed"
       THEN /\ sess' = SRefresh(tasks[wtask])
            /\ UNCHANGED <<tasks, players, wpend>>
       ELSE /\ WorkerCommit(SSet(SRefresh(tasks[wtask]), [progress |-> ViewsDoneProgress]))
            /\ sess' = Expired
    /\ wpc' = "views_next"
    /\ UNCHANGED <<clock, running, wtask, api, job, retry_count, last_node, timed_out,
                   subs, midx, mtotal, videos, scene, sup, mergeLocals, orphans, views>>

\* wait_for_completion after the callback: last_node = new_node, and the loop
\* ends when new_node is None
W_ViewsNext ==
    /\ wpc = "views_next"
    /\ IF views.next = 0
       THEN LeaveWait("views_post")
       ELSE /\ last_node' = views.next
            /\ wpc' = "views_wait"
            /\ UNCHANGED <<retry_count, timed_out>>
    /\ UNCHANGED <<tasks, clock, running, wtask, sess, wpend, api, job, subs, midx,
                   mtotal, entityVars, sup, mergeLocals, orphans, views>>

\* ((views_done + val / max) / total_views) * 100, not below last_progress, at
\* most 99, as the int that is stored
ViewsProgress(val) ==
    LET p == ((Cardinality(views.done) * MaxSampler + val) * 100) \div (MaxSampler * MaxViews)
    IN  Clamp99(IF p < views.last_progress THEN views.last_progress ELSE p)

\* a 'progress' message in run_gen_8views: internal_callback computes the
\* global progress and calls progress_callback, whose InterruptedError is not
\* caught here and reaches the except clause of wait_for_completion
W_ViewsProgress(val) ==
    /\ wpc = "views_wait" /\ job = "active"
    /\ views' = [views EXCEPT !.last_progress = ViewsProgress(val)]
    /\ IF tasks[wtask].status = "failed"
       THEN /\ CaughtAsConnectionError
            /\ sess' = SRefresh(tasks[wtask])
            /\ UNCHANGED <<tasks, players, wpend>>
       ELSE /\ WorkerCommit(SSet(SRefresh(tasks[wtask]), [progress |-> ViewsProgress(val)]))
            /\ sess' = Expired
            /\ UNCHANGED <<wpc, retry_count, last_node, timed_out>>
    /\ UNCHANGED <<clock, running, wtask, api, job, subs, midx, mtotal, videos, scene,
                   sup, mergeLocals, orphans>>

\* ws.connect / ws.recv fails, or the wait's timeout is reached
W_ViewsWaitError ==
    /\ wpc = "views_wait"
    /\ CaughtAsConnectionError
    /\ UNCHANGED <<tasks, clock, running, wtask, sess, wpend, api, job, subs, midx,
                   mtotal, entityVars, sup, mergeLocals, orphans, views>>

\* after the wait: get_history raises; or download_outputs fetches the
\* outputs of the save nodes that ran, leaving out those it cannot fetch, and
\* _handle_gen_8views assigns player.views_json, player.status = "done" and
\* task.result_json, all left pending
W_ViewsReturn ==
    /\ wpc = "views_post"
    /\ job' = "none"
    /\ \/ /\ wpc' = "exc_refresh"
          /\ UNCHANGED <<sess, wpend, views>>
       \/ /\ \E final \in SUBSET views.done : views' = [views EXCEPT !.json = final]
          /\ sess' = SSet(SLoad(sess, tasks[wtask]), [result_json |-> {"views_json"}])
          /\ wpend' = wpend \cup {Item}
          /\ wpc' = "ok_refresh"
    /\ UNCHANGED <<tasks, clock, running, wtask, api, retry_count, last_node,
                   timed_out, subs, midx, mtotal, entityVars, sup, mergeLocals,
                   orphans>>

\* the wait of run_gen_8views and what follows it
ViewsRun ==
    \/ \E node \in 0..OtherNode : W_ViewsExecuting(node)
    \/ W_ViewsFetch
    \/ W_ViewsPublish
    \/ W_ViewsPublishProgress
    \/ W_ViewsNext
    \/ \E val \in 0..MaxSampler : W_ViewsProgress(val)
    \/ W_ViewsWaitError
    \/ W_ViewsReturn

\* ------------------------------------------------------ _handle_scene_merge
\* current_result = json.loads(task.result_json); current_result[key] = ...;
\* task.result_json = json.dumps(current_result): read through the session
MergeInto(s, keys) == SSet(s, [result_json |-> s.row.result_json \cup keys])

NoMerge ==
    /\ steps' = <<>>
    /\ merge_records' = <<>>
    /\ current_img_path' = NoPath
    /\ nplayers' = 0
    /\ merge_plan' = "none"

\* fault: the no-players return without the writes to the Scene
NoPlayersSceneUntouched(s) == s

\* `if not players:` scene.merged_image_path = scene.base_image_path,
\* scene.status = "completed"
NoPlayersScene(s) == [s EXCEPT !.merged_image_path = Background, !.status = "completed"]

\* the preconditions raise; or the Scene has no players (progress = 100, result,
\* the Scene completed on its base image, commit, return); or current_img_path
\* is the base image and "requesting plan" is committed with progress = 5
W_MergeBegin ==
    /\ wpc = "process" /\ Kind = "SCENE_MERGE"
    /\ \/ Raise
       \/ /\ WorkerCommit(SSet(sess, [progress |-> 100,
                                      result_json |-> {"no_players", "merged_image_path"}]))
          /\ scene' = NoPlayersScene(scene)
          /\ sess' = Expired
          /\ wpc' = "ok_refresh"
          /\ UNCHANGED <<clock, running, wtask, api, job, retry_count, last_node,
                         timed_out, subs, midx, mtotal, videos, sup, mergeLocals,
                         orphans, views>>
       \/ /\ \E n \in 1..MaxPlayers : nplayers' = n
          /\ current_img_path' = Background
          /\ WorkerCommit(SSet(sess, [progress |-> 5, result_json |-> {"status_message"}]))
          /\ sess' = Expired
          /\ wpc' = "m_plan"
          /\ UNCHANGED <<clock, running, wtask, api, job, retry_count, last_node,
                         timed_out, subs, midx, mtotal, videos, sup, scene,
                         steps, merge_records, merge_plan, orphans, views>>

\* the sequences over S of the lengths in lens
SeqsOf(S, lens) == UNION {[1..n -> S] : n \in lens}

\* `except Exception` around generate_merge_prompts (it raises before its own
\* try, e.g. without an LLM profile): one step per player, found by player_id
ExceptFallback(n) == SeqsOf({"player", "no_image"}, {n})

\* generate_merge_prompts: "llm" is the `steps` list of the reply, of any length
\* and naming any player; "provider_fallback" is what its validation and its own
\* `except Exception` return, one step for players[0]
MergePlans(n) ==
    [llm |-> SeqsOf(StepKinds, 0..MaxPlanSteps),
     provider_fallback |-> SeqsOf({"player", "no_image"}, {1}),
     except_fallback |-> ExceptFallback(n)]

\* generate_merge_prompts or the fallback plan gives `steps`; an empty plan
\* commits progress = 100 and returns, else progress = 10 and the loop starts
W_MergePlan ==
    /\ wpc = "m_plan"
    /\ \E src \in DOMAIN MergePlans(nplayers) : \E st \in MergePlans(nplayers)[src] :
         /\ merge_plan' = src
         /\ steps' = st
         /\ mtotal' = Len(st)
         /\ IF Len(st) = 0
            THEN /\ WorkerCommit(SSet(sess, [progress |-> 100]))
                 /\ wpc' = "ok_refresh"
            ELSE /\ WorkerCommit(SSet(sess, [progress |-> 10,
                                             result_json |-> {"status_message"}]))
                 /\ wpc' = "m_step"
    /\ midx' = 0
    /\ merge_records' = <<>>
    /\ sess' = Expired
    /\ UNCHANGED <<clock, running, wtask, api, job, retry_count, last_node,
                   timed_out, subs, videos, sup, scene, current_img_path, nplayers,
                   orphans, views>>

\* fault: a loop that runs the same step again
SameStepAgain ==
    /\ midx' = midx
    /\ wpc' = "m_step"

\* next iteration of `for idx, step in enumerate(steps)`
NextStep ==
    /\ midx' = midx + 1
    /\ wpc' = "m_step"

\* top of the loop body: an unknown player is skipped; else progress and the
\* status message are written and committed
W_MergeStep ==
    /\ wpc = "m_step" /\ midx < mtotal
    /\ IF steps[midx + 1] = "unknown_player"
       THEN /\ NextStep
            /\ UNCHANGED <<tasks, sess, wpend, players>>
       ELSE /\ WorkerCommit(MergeInto(SSet(SLoad(sess, tasks[wtask]),
                                           [progress |-> MergeProgress(midx, mtotal)]),
                                      {"status_message"}))
            /\ sess' = Expired
            /\ wpc' = "m_submit"
            /\ UNCHANGED midx
    /\ UNCHANGED <<clock, running, wtask, api, job, retry_count, last_node,
                   timed_out, subs, mtotal, videos, sup, scene, mergeLocals,
                   orphans, views>>

\* fault: a player without image fails the run
NoImageRaises ==
    /\ wpc' = "exc_refresh"
    /\ UNCHANGED midx

\* `if not player_img_path: print("Skipping player ..."); continue`
NoImageSkip == NextStep

\* the step's image resolution and run_scene_merge up to the submission: a
\* player without image is skipped; else the step's record is appended, and a
\* missing file or a failed upload or queue_prompt raises, or the job is
\* submitted
W_MergeSubmit ==
    /\ wpc = "m_submit"
    /\ IF steps[midx + 1] = "no_image"
       THEN /\ NoImageSkip
            /\ UNCHANGED <<job, retry_count, last_node, timed_out, subs, sess,
                           merge_records>>
       ELSE /\ merge_records' = Append(merge_records, midx)
            /\ \/ /\ wpc' = "exc_refresh"
                  /\ UNCHANGED <<job, retry_count, last_node, timed_out, subs, sess, midx>>
               \/ /\ QueuePrompt
                  /\ UNCHANGED midx
    /\ UNCHANGED <<tasks, clock, running, wtask, wpend, api, mtotal, entityVars, sup,
                   steps, current_img_path, nplayers, merge_plan, orphans, views>>

\* fault: every step edits the base image again
CurrentImageKept(idx) == current_img_path

\* new_img_rel = result["merge_image_path"]; current_img_path = ... new_img_rel
NewCurrentImage(idx) == Artifact(idx)

\* the step's commit: current_img_path, scene.merged_image_path,
\* result_json["merged_image_path"], db.commit(), db.refresh(task)
W_PostMerge ==
    /\ wpc = "post" /\ Kind = "SCENE_MERGE" /\ job = "active"
    /\ job' = "none"
    /\ current_img_path' = NewCurrentImage(midx)
    /\ scene' = [scene EXCEPT !.merged_image_path = NewCurrentImage(midx)]
    /\ WorkerCommit(MergeInto(sess, {"merged_image_path"}))
    /\ sess' = SRefresh(tasks'[wtask])
    /\ NextStep
    /\ UNCHANGED <<clock, running, wtask, api, retry_count, last_node,
                   timed_out, subs, mtotal, videos, sup, steps, merge_records,
                   nplayers, merge_plan, orphans, views>>

\* after the loop: scene.merged_image_path from current_img_path,
\* scene.merged_prompts_json from merge_records, scene.status = "completed",
\* result_json gets the final path and message, progress = 100, db.commit()
W_MergeFinal ==
    /\ wpc = "m_step" /\ midx = mtotal
    /\ scene' = [status |-> "completed", merged_image_path |-> current_img_path,
                 merged_prompts_json |-> merge_records]
    /\ WorkerCommit(SSet(MergeInto(SLoad(sess, tasks[wtask]),
                                   {"merged_image_path", "status_message"}),
                         [progress |-> 100]))
    /\ sess' = Expired
    /\ wpc' = "ok_refresh"
    /\ midx' = 0
    /\ mtotal' = 0
    /\ NoMerge
    /\ UNCHANGED <<clock, running, wtask, api, job, retry_count, last_node,
                   timed_out, subs, videos, sup, orphans, views>>

\* ------------------------------------------------ _worker_loop, after the handler
\* fault: the done branch without `task.status = "done"`
DoneUpdateNoStatus == [progress |-> 100]

\* fault: the done branch without `task.progress = 100`
DoneUpdateNoProgress == [status |-> "done"]

\* db.refresh(task); if task.status != 'failed': status = "done", progress = 100
DoneUpdate == [status |-> "done", progress |-> 100]

\* fault: the Task is marked done whatever the re-read shows
MarksDoneAlways(status) == TRUE

\* `if task.status != 'failed':` after db.refresh(task)
MarksDone(status) == status # "failed"

W_OkRefresh ==
    /\ wpc = "ok_refresh"
    /\ sess' = IF MarksDone(tasks[wtask].status)
               THEN SSet(SRefresh(tasks[wtask]), DoneUpdate)
               ELSE SRefresh(tasks[wtask])
    /\ wpc' = "final"
    /\ NoMerge
    /\ UNCHANGED <<tasks, clock, running, wtask, wpend, api, job, retry_count, last_node,
                   timed_out, subs, midx, mtotal, entityVars, sup, orphans, views>>

\* fault: the except branch without `task.error = str(e)`
FailedUpdateNoError == [status |-> "failed"]

\* except Exception as e: db.refresh(task); a Task found failed is left as it
\* is, else status = "failed", error = str(e)
FailedUpdate == [status |-> "failed", error |-> "exception"]

W_ExcRefresh ==
    /\ wpc = "exc_refresh"
    /\ sess' = IF tasks[wtask].status = "failed"
               THEN SRefresh(tasks[wtask])
               ELSE SSet(SRefresh(tasks[wtask]), FailedUpdate)
    /\ wpc' = "final"
    /\ midx' = 0
    /\ mtotal' = 0
    /\ NoMerge
    /\ job' = "none"
    /\ UNCHANGED <<tasks, clock, running, wtask, wpend, api, retry_count, last_node,
                   timed_out, subs, entityVars, sup, orphans, views>>

\* "Final update if task still exists": completed_at if not set, duration,
\* updated_at, db.commit()
FinalUpdate(s) == IF s.row.completed_at THEN s ELSE SSet(s, [completed_at |-> TRUE])

\* fault: the worker thread ends with a Task that failed
NextIterationUnlessFailed(s) == IF s.row.status = "failed" THEN "none" ELSE "idle"

\* `while self.running:` after the Task's try / except / finally: every
\* exception of the iteration is caught, the loop goes on to its next query
NextIteration(s) == "idle"

W_Final ==
    /\ wpc = "final"
    /\ WorkerCommit(FinalUpdate(sess))
    /\ sess' = Expired
    /\ wtask' = 0
    /\ wpc' = NextIteration(sess)
    /\ UNCHANGED <<clock, running, api, job, retry_count, last_node,
                   timed_out, subs, midx, mtotal, videos, sup, scene, mergeLocals,
                   orphans, views>>

\* ------------------------------------------------ stop(), start() again, exit
\* the worker's locals when no Task is held
NoTask ==
    /\ wtask' = 0
    /\ sess' = Expired
    /\ wpend' = {}
    /\ retry_count' = 0
    /\ last_node' = 0
    /\ timed_out' = FALSE
    /\ midx' = 0
    /\ mtotal' = 0
    /\ NoMerge

\* TaskManager.stop(), called by shutdown_event: running = False, then
\* thread.join(timeout=2), which returns whether or not the thread has ended
Stop ==
    /\ LoopFree /\ running
    /\ running' = FALSE
    /\ UNCHANGED <<tasks, clock, workerVars, api, job, subs, entityVars, sup, orphans, views>>

\* `while self.running:` is false: _worker_loop returns, the thread ends
W_Exit ==
    /\ wpc = "idle" /\ ~running
    /\ wpc' = "none"
    /\ UNCHANGED <<tasks, clock, running, wtask, sess, wpend, api, job, retry_count,
                   last_node, timed_out, subs, midx, mtotal, entityVars, sup,
                   mergeLocals, orphans, views>>

\* where a worker thread is in its iteration: before the query, between the
\* query and the claim, inside _process_task, after it
LoopPosition(pc) ==
    IF pc = "idle" THEN "idle"
    ELSE IF pc = "claim" THEN "claim"
    ELSE IF pc \in {"ok_refresh", "exc_refresh", "final"} THEN "after"
    ELSE "handler"

\* TaskManager.start() after stop() while the old thread has not ended (the
\* join timed out): start() tests self.running only, so running = True and a
\* second thread runs _worker_loop; the old thread reads running = True again
\* and goes on
StartAgain ==
    /\ LoopFree
    /\ ~running /\ wpc # "none"
    /\ Len(orphans) < MaxOrphans
    /\ running' = TRUE
    /\ orphans' = Append(orphans, [pc |-> LoopPosition(wpc), task |-> wtask])
    /\ wpc' = "idle"
    /\ NoTask
    /\ UNCHANGED <<tasks, clock, api, job, subs, entityVars, sup, views>>

\* the older threads run the same _worker_loop; their iteration is taken in
\* four steps: query, claim, the handler with the final commit, loop exit
O_Select(i) ==
    /\ orphans[i].pc = "idle" /\ running
    /\ \E t \in OldestQueued : orphans' = [orphans EXCEPT ![i] = [pc |-> "claim", task |-> t]]
    /\ UNCHANGED <<tasks, clock, running, workerVars, api, job, subs, entityVars, sup, views>>

O_Claim(i) ==
    /\ orphans[i].pc = "claim"
    /\ tasks' = [tasks EXCEPT ![orphans[i].task] =
                    [@ EXCEPT !.status = "running", !.started_at = TRUE, !.progress = 0]]
    /\ orphans' = [orphans EXCEPT ![i].pc = "handler"]
    /\ UNCHANGED <<clock, running, workerVars, api, job, subs, entityVars, sup, views>>

O_Finish(i) ==
    /\ orphans[i].pc \in {"handler", "after"}
    /\ \E outcome \in {[status |-> "done", progress |-> 100, error |-> ""],
                        [status |-> "failed", progress |-> tasks[orphans[i].task].progress,
                         error |-> "exception"]} :
         tasks' = [tasks EXCEPT ![orphans[i].task] =
                     IF @.status = "failed" THEN [@ EXCEPT !.completed_at = TRUE]
                     ELSE [@ EXCEPT !.status = outcome.status, !.progress = outcome.progress,
                                    !.error = outcome.error, !.completed_at = TRUE]]
    /\ orphans' = [orphans EXCEPT ![i] = [pc |-> "idle", task |-> 0]]
    /\ UNCHANGED <<clock, running, workerVars, api, job, subs, entityVars, sup, views>>

O_Exit(i) ==
    /\ orphans[i].pc = "idle" /\ ~running
    /\ orphans' = [j \in 1..(Len(orphans) - 1) |-> IF j < i THEN orphans[j] ELSE orphans[j + 1]]
    /\ UNCHANGED <<tasks, clock, running, workerVars, api, job, subs, entityVars, sup, views>>

\* the process ends after shutdown_event: the worker threads are daemon
\* threads and end with it wherever they are; the database file stays
ProcessExit ==
    /\ LoopFree /\ ~running
    /\ wpc # "none" \/ orphans # <<>>
    /\ wpc' = "none"
    /\ NoTask
    /\ orphans' = <<>>
    /\ job' = "none"
    /\ UNCHANGED <<tasks, clock, running, api, subs, entityVars, sup, views>>

\* ------------------------------------------ force reset (routes/tasks.py)
\* a row removed by `DELETE FROM kt_ai_task`: no query finds it, and an UPDATE or
\* a refresh of it raises
Deleted(t) == tasks[t].status = "deleted"

\* the Task the worker holds still has its row
Present == IF wtask = 0 THEN TRUE ELSE ~Deleted(wtask)

\* force_reset_tasks_scene: every Task of the scene is deleted, whatever its
\* status, and the delete is committed
ForceReset ==
    /\ LoopFree
    /\ \E t \in TaskIds : ~Deleted(t)
    /\ tasks' = [t \in TaskIds |-> [tasks[t] EXCEPT !.status = "deleted"]]
    /\ UNCHANGED <<clock, running, workerVars, api, job, subs, entityVars, sup, orphans, views>>

\* the claim's db.commit() on a deleted row raises outside the inner try:
\* `except Exception as e: print("Worker loop error")`, finally db.close()
W_ClaimDeleted ==
    /\ wpc = "claim" /\ Deleted(wtask)
    /\ wpc' = "idle"
    /\ NoTask
    /\ UNCHANGED <<tasks, clock, running, api, job, subs, entityVars, sup, orphans, views>>

\* _process_task on a deleted row: the handler's read or commit of the Task
\* raises, nothing is written, control goes to `except Exception as e`
W_HandlerDeleted ==
    /\ wpc = "process" /\ Deleted(wtask)
    /\ Raise

\* db.refresh(task) after the handler raises: InterruptedError("Task force
\* deleted"), caught by `except Exception as e`
W_OkRefreshDeleted ==
    /\ wpc = "ok_refresh" /\ Deleted(wtask)
    /\ Raise

\* fault: the loop ends when the Task of the iteration has been deleted
AbortedIterationEnds == "none"

\* "Task processing aborted (Task deleted)": continue
AbortedIteration == "idle"

\* db.refresh(task) in the except branch raises: the final update is skipped
W_ExcRefreshDeleted ==
    /\ wpc = "exc_refresh" /\ Deleted(wtask)
    /\ wpc' = AbortedIteration
    /\ NoTask
    /\ job' = "none"
    /\ UNCHANGED <<tasks, clock, running, api, subs, entityVars, sup, orphans, views>>

\* the final update's db.commit() raises: `except Exception: pass`
W_FinalDeleted ==
    /\ wpc = "final" /\ Deleted(wtask)
    /\ wpc' = "idle"
    /\ NoTask
    /\ UNCHANGED <<tasks, clock, running, api, job, subs, entityVars, sup, orphans, views>>

\* the iteration of _worker_loop over a Task whose row is gone
DeletedTask ==
    \/ W_ClaimDeleted
    \/ W_HandlerDeleted
    \/ W_OkRefreshDeleted
    \/ W_ExcRefreshDeleted
    \/ W_FinalDeleted

\* ------------------------------------------------- batch supervisor (batch.py)
\* process_batch_gen_base and process_batch_gen_video over the items 1..NItems
BatchRoutines == {"gen_base", "gen_video"}

\* background_tasks.add_task(process_batch_..., project_id): the routine runs on
\* the event loop once the response is sent
SupStart(routine) ==
    /\ LoopFree /\ sup.pc = "off"
    /\ sup' = [SupIdle EXCEPT !.routine = routine, !.pc = "item", !.i = 1]
    /\ UNCHANGED <<tasks, clock, running, workerVars, api, job, subs, entityVars, orphans, views>>

\* process_batch_gen_complete over the items, process_batch_gen_scene_merge
\* over the Scene
ChainRoutines == {"gen_base", "gen_complete"}
MergeRoutine == "scene_merge"

\* len(players) / len(scenes) of the routine
ItemCount(routine) == IF routine = MergeRoutine THEN 1 ELSE NItems

\* the Tasks one run may create
SubmitCap(routine) == IF routine = MergeRoutine THEN MaxJobs ELSE MaxBatchTasks

\* db.add(models.Task(..., status="queued")); db.commit(); then the routine is
\* inside wait_for_task(db, task.id)
SupSubmit(kind, stage) ==
    /\ Len(tasks) < SubmitCap(sup.routine)
    /\ Insert(kind, sup.i)
    /\ sup' = [sup EXCEPT !.pc = "poll", !.stage = stage, !.task = Len(tasks) + 1]

\* log_system(... "跳过") and `continue`: the next item, with the reason logged
SupSkip(reason) ==
    /\ sup' = [sup EXCEPT !.i = @ + 1, !.stage = "", !.skipped = reason]
    /\ UNCHANGED <<tasks, clock, subs>>

\* fault: the chain started for every player that is not done
StartsChainUnlessDone(p) == p.status # "done"

\* `if player.status == 'draft':` of process_batch_gen_base and
\* process_batch_gen_complete: the prompt stage and what follows it
StartsChain(p) == p.status = "draft"

\* process_batch_gen_complete after db.refresh(player): `player.status ==
\* 'ready' or (player.base_image_path and player.status != 'done')`; the base
\* image is assigned together with status 'ready'
ViewsWhenBaseImage(p) == p.status = "ready"

\* process_batch_gen_complete: the 8-views stage, or the "状态异常" log
SupViewsStage ==
    IF ViewsWhenBaseImage(players[sup.i])
    THEN SupSubmit("GEN_8VIEWS", "views")
    ELSE SupSkip("status")

\* process_batch_gen_complete, the body for one player up to its next await: a
\* done player is skipped, a draft one gets its GEN_PROMPT Task and after a
\* successful prompt stage its GEN_BASE Task; a player that was not draft, or
\* whose base stage succeeded, reaches the 8-views stage
SupCompleteItem ==
    IF sup.stage = "base" THEN SupSubmit("GEN_BASE", "base")
    ELSE IF sup.stage = "views" THEN SupViewsStage
    ELSE IF players[sup.i].status = "done" THEN SupSkip("done")
    ELSE IF StartsChain(players[sup.i]) THEN SupSubmit("GEN_PROMPT", "prompt")
    ELSE SupViewsStage

\* process_batch_gen_scene_merge: `if scene.merged_image_path:`
MergedWhenPath(s) == s.merged_image_path # NoPath

\* process_batch_gen_scene_merge, the body for the Scene: skipped without a
\* base image, skipped as merged, skipped when no player is linked or a linked
\* player has no base image, else its SCENE_MERGE Task
SupMergeItem ==
    IF scene.status = "draft" THEN SupSkip("no_base")
    ELSE IF MergedWhenPath(scene) THEN SupSkip("merged")
    ELSE \/ SupSkip("players")
         \/ SupSubmit("SCENE_MERGE", "merge")

\* the loop body up to the first await.  gen_base: a player found done / ready
\* is skipped, a draft one gets its GEN_PROMPT Task, and after a successful
\* prompt stage its GEN_BASE Task.  gen_video: a completed video is skipped, a
\* video without prompt gets its GEN_VIDEO_PROMPT Task, else its GEN_VIDEO Task.
\* After the last item the routine logs and returns.
SupItem ==
    /\ api.op = "none" /\ sup.pc = "item"
    /\ IF sup.i > ItemCount(sup.routine)
       THEN /\ sup' = [sup EXCEPT !.pc = "ended"]
            /\ UNCHANGED <<tasks, clock, subs>>
       ELSE IF sup.routine = "gen_complete" THEN SupCompleteItem
       ELSE IF sup.routine = MergeRoutine THEN SupMergeItem
       ELSE IF sup.routine = "gen_base"
       THEN IF sup.stage = "base" THEN SupSubmit("GEN_BASE", "base")
            ELSE IF StartsChain(players[sup.i]) THEN SupSubmit("GEN_PROMPT", "prompt")
            ELSE /\ sup' = [sup EXCEPT !.i = @ + 1]
                 /\ UNCHANGED <<tasks, clock, subs>>
       ELSE IF sup.stage = "video" THEN SupSubmit("GEN_VIDEO", "video")
            ELSE IF videos[sup.i].status = "completed"
            THEN /\ sup' = [sup EXCEPT !.i = @ + 1]
                 /\ UNCHANGED <<tasks, clock, subs>>
            ELSE IF ~videos[sup.i].prompt_pos THEN SupSubmit("GEN_VIDEO_PROMPT", "prompt")
            ELSE SupSubmit("GEN_VIDEO", "video")
    /\ UNCHANGED <<running, workerVars, api, job, entityVars, orphans, views>>

\* fault: a wait that gives up on a Task still queued or running returns True
WaitForTaskUnlessFailed(status) == status # "failed"

\* the value wait_for_task returns, by the status it read last: True for done,
\* False for failed and, when the timeout ends the loop, for queued and running
WaitForTask(status) == status = "done"

\* wait_for_task: after a sleep the Task is read again; done returns True,
\* failed returns False, and so does the end of the timeout
SupPoll ==
    /\ api.op = "none" /\ sup.pc = "poll"
    /\ \/ /\ tasks[sup.task].status = "done"
          /\ sup' = [sup EXCEPT !.pc = "refresh", !.success = WaitForTask("done")]
       \/ /\ tasks[sup.task].status = "failed"
          /\ sup' = [sup EXCEPT !.pc = "refresh", !.success = WaitForTask("failed")]
       \/ /\ tasks[sup.task].status \in {"queued", "running"}
          /\ sup' = [sup EXCEPT !.pc = "refresh",
                                !.success = WaitForTask(tasks[sup.task].status)]
    /\ UNCHANGED <<tasks, clock, running, workerVars, api, job, subs, entityVars, orphans, views>>

\* `"Global Stop" in task.result_json` after a failed wait: the prompt stage of
\* process_batch_gen_video has no such test
ChecksGlobalStop(routine, stage) == ~(routine = "gen_video" /\ stage = "prompt")

\* fault: a stage that failed is logged and the chain goes on
NextStageAlways(success) == TRUE

\* `if not success: ... continue` after each wait of a chain
NextStageOnSuccess(success) == success

\* db.refresh(task) after the wait and the branch on its result: on success the
\* next stage of the item, or the next item after the last stage; on failure
\* `return` when the routine tests for the tag and finds it, else the next item
SupRefresh ==
    /\ sup.pc = "refresh"
    /\ LET r == tasks[sup.task].result_json
           s == [sup EXCEPT !.result_json = r]
       IN sup' = IF NextStageOnSuccess(sup.success)
                 THEN IF sup.stage = "prompt"
                      THEN [s EXCEPT !.pc = "item",
                                     !.stage = IF sup.routine \in ChainRoutines THEN "base" ELSE "video"]
                      ELSE IF sup.routine = "gen_complete" /\ sup.stage = "base"
                      THEN [s EXCEPT !.pc = "item", !.stage = "views"]
                      ELSE [s EXCEPT !.pc = "item", !.stage = "", !.i = @ + 1]
                 ELSE IF ChecksGlobalStop(sup.routine, sup.stage) /\ HasStopTag(r)
                      THEN [s EXCEPT !.pc = "ended"]
                      ELSE [s EXCEPT !.pc = "item", !.stage = "", !.i = @ + 1]
    /\ UNCHANGED <<tasks, clock, running, workerVars, api, job, subs, entityVars, orphans, views>>

\* ------------------------------------------------------------------- Next
WorkerLoop ==
    \/ W_Select
    \/ W_Claim
    \/ W_OkRefresh
    \/ W_ExcRefresh
    \/ W_Final

PromptHandlers ==
    \/ W_GenPrompt10
    \/ W_GenPrompt30
    \/ W_GenPromptLLM
    \/ W_GenVideoPrompt

BackendWait ==
    \/ \E val \in 0..MaxSampler : W_RecvProgress(val)
    \/ \E node \in 0..MaxNodes : W_RecvExecuting(node)
    \/ W_ConnError
    \/ W_Timeout
    \/ W_PostFail

CallbackHandlers ==
    \/ W_Submit
    \/ W_PostGenBase
    \/ W_PostGenVideo

MergeHandlers ==
    \/ W_MergeBegin
    \/ W_MergePlan
    \/ W_MergeStep
    \/ W_MergeSubmit
    \/ W_PostMerge
    \/ W_MergeFinal

Routes ==
    \/ \E t \in 0..MaxTasks : CancelRead(t)
    \/ CancelWrite
    \/ StopRead
    \/ StopWrite

Supervisor ==
    \/ \E routine \in BatchRoutines : SupStart(routine)
    \/ SupItem
    \/ SupPoll
    \/ SupRefresh

\* the scheduler with Tasks of the prompt kinds
Next ==
    \/ Start
    \/ \E kind \in PromptKinds : Enqueue(kind)
    \/ Routes
    \/ WorkerLoop
    \/ PromptHandlers

Spec == Init /\ [][Next]_vars

\* the scheduler with the worker thread scheduled: startup_event starts it, and
\* a step of the thread that can be taken is taken.  The GEN_VIDEO_PROMPT
\* handler, one call that returns or raises, stands for a handler call that ends.
NextLive ==
    \/ Start
    \/ Enqueue("GEN_VIDEO_PROMPT")
    \/ Routes
    \/ WorkerLoop
    \/ W_GenVideoPrompt

SpecLive ==
    /\ Init /\ [][NextLive]_vars
    /\ WF_vars(Start)
    /\ WF_vars(WorkerLoop \/ W_GenVideoPrompt)

\* the wait for one backend job with the clock running: the wait loop tests
\* its timeout at least once per ws.settimeout(5) read, so the timeout is
\* reached in the end and the test is made; the worker thread is scheduled
NextWait ==
    \/ Start
    \/ EnqueueJob("GEN_VIDEO")
    \/ \E t \in 0..MaxTasks : CancelRead(t)
    \/ CancelWrite
    \/ WorkerLoop
    \/ BackendWait
    \/ W_Submit
    \/ W_PostGenVideo

SpecWait ==
    /\ Init /\ [][NextWait]_vars
    /\ WF_vars(W_Timeout)
    /\ WF_vars(WorkerLoop)

OldThreads ==
    \/ \E i \in 1..MaxOrphans : i <= Len(orphans) /\ O_Select(i)
    \/ \E i \in 1..MaxOrphans : i <= Len(orphans) /\ O_Claim(i)
    \/ \E i \in 1..MaxOrphans : i <= Len(orphans) /\ O_Finish(i)
    \/ \E i \in 1..MaxOrphans : i <= Len(orphans) /\ O_Exit(i)

\* the scheduler over the life of the application: startup, requests, the
\* shutdown's stop(), a later start(), the end of the process and its restart
\* over the same database; the threads are scheduled, and a process that has
\* ended is started again
NextStop ==
    \/ Start
    \/ Enqueue("GEN_VIDEO_PROMPT")
    \/ Stop
    \/ StartAgain
    \/ ProcessExit
    \/ WorkerLoop
    \/ W_GenVideoPrompt
    \/ W_Exit
    \/ OldThreads

SpecStop ==
    /\ Init /\ [][NextStop]_vars
    /\ WF_vars(Start)
    /\ WF_vars(WorkerLoop \/ W_GenVideoPrompt \/ W_Exit)
    /\ WF_vars(OldThreads)

\* the scheduler with the force reset of a scene's Tasks: a statement on a
\* Task runs when its row exists, and raises when it does not
NextReset ==
    \/ Start
    \/ Enqueue("GEN_VIDEO_PROMPT")
    \/ ForceReset
    \/ Present /\ WorkerLoop
    \/ Present /\ W_GenVideoPrompt
    \/ DeletedTask

SpecReset ==
    /\ Init /\ [][NextReset]_vars
    /\ WF_vars(Start)
    /\ WF_vars((Present /\ (WorkerLoop \/ W_GenVideoPrompt)) \/ DeletedTask)

\* the scheduler with a backend that may fail to answer: a route handler that
\* has returned from its backend calls goes on to its commit
NextDown ==
    \/ Start
    \/ Enqueue("GEN_VIDEO_PROMPT")
    \/ Routes
    \/ StopHangs
    \/ WorkerLoop
    \/ W_GenVideoPrompt

SpecDown ==
    /\ Init /\ [][NextDown]_vars
    /\ WF_vars(CancelWrite \/ StopWrite)
    /\ WF_vars(WorkerLoop \/ W_GenVideoPrompt)

\* the scheduler with the kinds that need an entity prerequisite: the handler
\* goes past its test only when the prerequisite is there
NextPrereq ==
    \/ Start
    \/ \E kind \in {"SCENE_MERGE", "GEN_VIDEO"} : EnqueueJob(kind)
    \/ \E i \in 1..NItems : EnqueueViews(i)
    \/ \E t \in 0..MaxTasks : CancelRead(t)
    \/ CancelWrite
    \/ WorkerLoop
    \/ W_PrerequisiteMissing
    \/ wpc = "process" /\ PrerequisiteMet /\ W_Submit
    \/ wpc = "process" /\ PrerequisiteMet /\ W_SubmitViews
    \/ wpc = "process" /\ PrerequisiteMet /\ W_MergeBegin
    \/ ViewsRun
    \/ BackendWait
    \/ W_PostGenVideo
    \/ W_MergePlan
    \/ W_MergeStep
    \/ W_MergeSubmit
    \/ W_PostMerge
    \/ W_MergeFinal

SpecPrereq ==
    /\ InitPrereq /\ [][NextPrereq]_vars
    /\ WF_vars(WorkerLoop \/ W_PrerequisiteMissing)

\* the scheduler with Tasks of the backend kinds
NextAdapter ==
    \/ Start
    \/ \E kind \in BackendKinds : EnqueueJob(kind)
    \/ Routes
    \/ WorkerLoop
    \/ BackendWait
    \/ CallbackHandlers
    \/ MergeHandlers

SpecAdapter == InitAdapter /\ [][NextAdapter]_vars

\* one run of a batch routine: the supervisor creates the Tasks
NextBatch ==
    \/ Start
    \/ Supervisor
    \/ StopRead
    \/ StopWrite
    \/ WorkerLoop
    \/ PromptHandlers
    \/ BackendWait
    \/ CallbackHandlers

SpecBatch == Init /\ [][NextBatch]_vars

\* POST /tasks/create with task_type GEN_BASE for a player, while a batch
\* routine runs
EnqueueBase(i) ==
    /\ LoopFree
    /\ Len(tasks) < MaxBatchTasks
    /\ Insert("GEN_BASE", i)
    /\ UNCHANGED <<running, workerVars, api, job, entityVars, sup, orphans, views>>

\* the players of the project in any status, before a batch run
InitChain ==
    /\ InitNoEntities
    /\ players \in [1..NItems -> {DraftPlayer, ReadyPlayer, DonePlayer}]
    /\ scene = GeneratedScene

\* one run of process_batch_gen_base or process_batch_gen_complete over a
\* backend that answers without progress messages and connection errors, the
\* user creating a base-image Task for the character whose prompt stage the
\* routine is waiting for
NextChain ==
    \/ Start
    \/ \E routine \in ChainRoutines : SupStart(routine)
    \/ SupItem
    \/ SupPoll
    \/ SupRefresh
    \/ sup.pc = "poll" /\ sup.stage = "prompt" /\ EnqueueBase(sup.i)
    \/ WorkerLoop
    \/ W_GenPrompt10
    \/ W_GenPrompt30
    \/ W_GenPromptLLM
    \/ W_Submit
    \/ wpc = "process" /\ PrerequisiteMet /\ W_SubmitViews
    \/ \E node \in 0..MaxNodes : W_RecvExecuting(node)
    \/ W_PostFail
    \/ W_PostGenBase
    \/ \E node \in 0..OtherNode : W_ViewsExecuting(node)
    \/ W_ViewsFetch
    \/ W_ViewsPublish
    \/ W_ViewsPublishProgress
    \/ W_ViewsNext
    \/ W_ViewsReturn

SpecChain == InitChain /\ [][NextChain]_vars

\* a SCENE_MERGE Task created by the user, and one run of
\* process_batch_gen_scene_merge
NextMergeRun ==
    \/ Start
    \/ EnqueueJob("SCENE_MERGE")
    \/ SupStart(MergeRoutine)
    \/ SupItem
    \/ SupPoll
    \/ SupRefresh
    \/ \E t \in 0..MaxTasks : CancelRead(t)
    \/ CancelWrite
    \/ WorkerLoop
    \/ \E node \in 0..MaxNodes : W_RecvExecuting(node)
    \/ W_ConnError
    \/ W_Timeout
    \/ W_PostFail
    \/ MergeHandlers

\* the Scene without base image, with it, or merged, before the run
InitMergeRun == InitRest /\ scene \in {DraftScene, GeneratedScene, CompletedScene}

SpecMergeRun == InitMergeRun /\ [][NextMergeRun]_vars

\* ----------------------------------------------------------------- claims
\* C1: in every reachable state, under any interleaving of enqueue, cancel,
\* global stop and worker steps, at most one Task has status running
C1_SingleFlight ==
    Cardinality({t \in TaskIds : tasks[t].status = "running"}) <= 1

\* a Task is running after another Task was started and has ended, with a
\* route in the middle of its two steps
C1_Witness ==
    \E t, u \in TaskIds :
        /\ t # u
        /\ tasks[t].status = "running"
        /\ tasks[u].started_at /\ tasks[u].status \in {"done", "failed"}
        /\ api.op # "none"

\* C2: a Task's status only moves queued -> running, running -> done,
\* running -> failed or queued -> failed; a done or failed Task never changes
\* status again
C2_StatusTransitions ==
    [][\A t \in TaskIds :
          \/ tasks'[t].status = tasks[t].status
          \/ <<tasks[t].status, tasks'[t].status>> \in
                {<<"queued", "running">>, <<"running", "done">>,
                 <<"running", "failed">>, <<"queued", "failed">>}]_vars

\* a Task that a cancel made failed is done
C2_Witness ==
    \E t \in TaskIds : tasks[t].status = "done" /\ "interrupted" \in tasks[t].result_json

\* C3: a Task cancelled while queued (failed without having started) never
\* becomes running, also when the cancel races with the worker's selection
C3_CancelQueuedNeverRuns ==
    [][\A t \in TaskIds :
          (tasks[t].status = "failed" /\ ~tasks[t].started_at)
              => tasks'[t].status # "running"]_vars

\* a Task carrying the cancel's result and completion time is running
C3_Witness ==
    \E t \in TaskIds :
        /\ tasks[t].status = "running"
        /\ tasks[t].result_json = {"interrupted"}
        /\ tasks[t].completed_at

\* C4: when the Task is failed in the database while its adapter waits on the
\* backend, the next backend message that reaches the callback ends the wait
\* with an error
C4_AbortAtNextMessage ==
    [][(/\ wpc = "wait"
        /\ CallbackRaises
        /\ \/ \E val \in 0..MaxSampler : W_RecvProgress(val)
           \/ \E node \in 0..MaxNodes : last_node # 0 /\ node # last_node /\ W_RecvExecuting(node))
           => wpc' = "exc_refresh"]_vars

\* the wait goes on although the callback has reloaded the Task, after a
\* progress message it had committed, and found it failed
C4_Witness ==
    /\ wpc = "wait"
    /\ HasCallback
    /\ sess.loaded /\ sess.row.status = "failed" /\ sess.row.progress = 99
    /\ retry_count >= 1

\* C5: a started Task that has been made failed gets no further backend
\* submission; a composite pipeline cancelled during step i never submits
\* step i+1
C5_NoSubmissionAfterCancel ==
    [][\A t \in TaskIds :
          (tasks[t].status = "failed" /\ tasks[t].started_at) => subs'[t] = subs[t]]_vars

\* the second step of a composite pipeline is in flight for a failed Task
\* whose result was last written by the pipeline, after the cancel
C5_Witness ==
    /\ wpc = "wait"
    /\ Kind = "SCENE_MERGE"
    /\ subs[wtask] = 2
    /\ tasks[wtask].status = "failed"
    /\ "merged_image_path" \in tasks[wtask].result_json

\* C6: a Task the global stop made failed and tagged stays failed and keeps
\* the tag, also after the worker has finished handling it
C6_StopTagKept ==
    [][\A t \in TaskIds :
          (tasks[t].status = "failed" /\ HasStopTag(tasks[t].result_json))
              => (tasks'[t].status = "failed" /\ HasStopTag(tasks'[t].result_json))]_vars

\* the global stop has failed and tagged the worker's Task, and the worker's
\* final commit holds the status it decided on before
C6_Witness ==
    /\ wpc = "final"
    /\ tasks[wtask].status = "failed" /\ HasStopTag(tasks[wtask].result_json)
    /\ "status" \in sess.dirty /\ sess.row.status = "done"

\* C7: a batch supervisor that awaited a Task and got it back failed with the
\* Global Stop tag creates no further Task
C7_NoTaskAfterGlobalStop ==
    [][(sup.task # 0 /\ ~sup.success /\ HasStopTag(sup.result_json))
          => sup'.task = sup.task]_vars

\* the supervisor waits for the Task of the second item after the Task of the
\* first item came back failed with the tag
C7_Witness ==
    /\ sup.pc = "poll" /\ sup.i = 2
    /\ ~sup.success /\ HasStopTag(sup.result_json)

\* C8: for every Task, completed_at is set if and only if status is done or
\* failed
C8_CompletedIffTerminal ==
    \A t \in TaskIds : tasks[t].completed_at <=> tasks[t].status \in {"done", "failed"}

\* a running Task has its completion time set
C8_Witness ==
    \E t \in TaskIds : tasks[t].status = "running" /\ tasks[t].completed_at

\* C9: every Task whose status is done has progress 100
C9_DoneProgress ==
    \A t \in TaskIds : tasks[t].status = "done" => tasks[t].progress = 100

\* a Task whose handler committed 80 (GEN_PROMPT) or nothing (GEN_VIDEO_PROMPT)
\* as progress is done
C9_Witness ==
    /\ \E t \in TaskIds : tasks[t].status = "done" /\ tasks[t].task_type = "GEN_PROMPT"
    /\ \E t \in TaskIds : tasks[t].status = "done" /\ tasks[t].task_type = "GEN_VIDEO_PROMPT"

\* C10: whenever the worker has selected a Task to run, no Task that is still
\* queued has an earlier creation time
C10_Fifo ==
    wpc = "claim" =>
        \A u \in Queued : tasks[u].created_at >= tasks[wtask].created_at

\* the worker has selected a Task while a later one is queued too
C10_Witness ==
    /\ wpc = "claim"
    /\ \E u \in Queued : tasks[u].created_at > tasks[wtask].created_at

\* C11: a failed Task never blocks the queue: with the worker running and
\* every handler call ending, every queued Task is eventually started or
\* cancelled (its status leaves queued)
C11_QueueNeverBlocked ==
    \A t \in 1..MaxTasks :
        (t \in TaskIds /\ tasks[t].status = "queued")
            ~> (t \in TaskIds /\ tasks[t].status # "queued")

\* a Task has been started while an earlier started Task is failed
C11_Witness ==
    \E t, u \in TaskIds :
        /\ tasks[t].status = "failed" /\ tasks[t].started_at
        /\ tasks[u].created_at >= tasks[t].created_at /\ u # t
        /\ tasks[u].status = "running" /\ wtask = u

\* C12: the progress values stored on a Task while its status is running never
\* decrease, whatever progress events the backend sends
C12_ProgressMonotone ==
    [][\A t \in TaskIds :
          (tasks[t].status = "running" /\ tasks'[t].status = "running")
              => tasks'[t].progress >= tasks[t].progress]_vars

\* a running composite Task is at its first step with progress 0, after the
\* plan was committed with progress 10
C12_Witness ==
    /\ wpc = "m_submit" /\ midx = 0
    /\ tasks[wtask].status = "running"
    /\ tasks[wtask].progress = 0

\* the handler of a composite Task reaches its final commit
MergeFinalCommit == wpc = "m_step" /\ midx = mtotal /\ wpc' = "ok_refresh"

\* step_index of the steps of a plan that are not skipped, in plan order
MergedSteps(plan) ==
    SelectSeq([i \in 1..Len(plan) |-> i - 1], LAMBDA idx : plan[idx + 1] = "player")

MergeStepFailed ==
    /\ wpc = "exc_refresh" /\ wpc' = "final"
    /\ tasks[wtask].task_type = "SCENE_MERGE" /\ steps # <<>>

\* C14: if composite step k (k < N-1) fails, the Scene's intermediate
\* merged-image path is the artifact committed by step k-1, or the original
\* base image if k = 0, and the Task is failed
C14_PartialProgressKept ==
    [][(MergeStepFailed /\ midx < mtotal - 1) =>
          /\ scene.merged_image_path =
                IF midx = 0 THEN [src |-> "base", idx |-> 0]
                ELSE [src |-> "step", idx |-> midx - 1]
          /\ scene'.merged_image_path = scene.merged_image_path
          /\ sess'.row.status = "failed"]_vars

\* step 0 of a two-step plan has failed
C14_Witness ==
    /\ wpc = "exc_refresh" /\ tasks[wtask].task_type = "SCENE_MERGE"
    /\ mtotal = 2 /\ midx = 0
    /\ steps[1] = "player"

\* C15: when the planning call of a composite Task fails the pipeline goes on
\* with a fallback plan that has one step per character of the Scene
C15_FallbackPlanPerCharacter ==
    [][(wpc = "m_plan" /\ wpc' # "m_plan" /\ merge_plan' # "llm") =>
          /\ wpc' = "m_step"
          /\ Len(steps') = nplayers]_vars

\* the loop runs over the plan that generate_merge_prompts built after its
\* request failed, for a Scene with two characters
C15_Witness ==
    /\ wpc = "m_step" /\ merge_plan = "provider_fallback"
    /\ nplayers = 2

\* C16: when a step of a composite Task fails the Task ends failed and the
\* Scene's status is not completed; the Scene's status becomes completed only
\* when every plan step has committed, or when the Scene has no characters
C16_CompletedOnlyAfterAllSteps ==
    [][/\ MergeStepFailed =>
             (sess'.row.status = "failed" /\ scene'.status # "completed")
       /\ (scene.status # "completed" /\ scene'.status = "completed") =>
             \/ wpc = "process" /\ wpc' = "ok_refresh"
             \/ MergeFinalCommit /\ Len(merge_records) = mtotal]_vars

\* step 1 of a plan has failed after step 0 committed its artifact, on a Scene
\* that an earlier composite Task had completed
C16_Witness ==
    /\ wpc = "exc_refresh" /\ tasks[wtask].task_type = "SCENE_MERGE"
    /\ midx = 1
    /\ scene.merged_image_path = Artifact(0)
    /\ scene.status = "completed"

\* the supervisor creates the next Task of its batch, after the one it waited for
SupSubmitsNext == sup.pc = "item" /\ sup.task # 0 /\ Len(tasks') = Len(tasks) + 1

\* C17: the batch supervisor submits the next Task of a batch only after the
\* Task it submitted before is done or failed, or after its wait for that Task
\* has ended by timeout and returned False
C17_NextAfterTerminalOrTimeout ==
    [][SupSubmitsNext =>
          (tasks[sup.task].status \in {"done", "failed"} \/ ~sup.success)]_vars

\* C17 as stated: the batch supervisor submits the next Task of a batch only
\* after the Task it submitted before is done or failed
C17_AsStated ==
    [][SupSubmitsNext => tasks[sup.task].status \in {"done", "failed"}]_vars

\* the supervisor has submitted the base-image Task of an item after the
\* item's prompt Task was done
C17_Witness ==
    /\ sup.pc = "poll" /\ sup.stage = "base" /\ sup.task > 1
    /\ tasks[sup.task - 1].status = "done"
    /\ tasks[sup.task].task_type = "GEN_BASE"

\* C18: a backend job whose wait has exceeded its timeout ends as a failure,
\* the Task ending failed, and the wait for a job always ends, whatever
\* messages, read timeouts and connection errors occur
C18_TimeoutFails ==
    /\ \A t \in 1..MaxJobs :
          (wtask = t /\ wpc = "wait" /\ timed_out)
              ~> (wtask # t /\ t \in TaskIds /\ tasks[t].status = "failed")
    /\ (wpc = "wait") ~> (wpc # "wait")

\* the wait has met its timeout as often as a connection error is retried: the
\* next test of the timeout ends the wait
C18_Witness == wpc = "wait" /\ timed_out /\ retry_count = max_retries

\* the row carries an error text, in error or in result_json
CarriesError(row) ==
    row.error # "" \/ row.result_json \cap {"interrupted", "global_stop"} # {}

\* C19: every failed Task carries an error string, in error or in its result,
\* and keeps the partial result it had recorded: a cancel or a failure does not
\* drop the merged image path that committed composite steps had stored
C19_FailedKeepsPartialResult ==
    [][\A t \in TaskIds :
          tasks'[t].status = "failed" =>
              /\ CarriesError(tasks'[t])
              /\ "merged_image_path" \in tasks[t].result_json
                    => "merged_image_path" \in tasks'[t].result_json]_vars

\* a composite Task has failed at a later step with its error stored, the
\* result still holding the path that the first step committed
C19_Witness ==
    \E t \in TaskIds :
        /\ tasks[t].task_type = "SCENE_MERGE" /\ tasks[t].status = "failed"
        /\ tasks[t].error # ""
        /\ "merged_image_path" \in tasks[t].result_json

\* C20: handler exceptions are not retried: the handler of a Task is invoked
\* at most once (a Task the worker starts was not started before), a Task that
\* is failed is never run or queued again (its status stays failed), and the
\* worker stores the text of the exception it handles as the Task's error
C20_NoRetryErrorStored ==
    [][/\ (wpc = "claim" /\ wpc' = "process") => ~tasks[wtask].started_at
       /\ \A t \in TaskIds : tasks[t].status = "failed" => tasks'[t].status = "failed"
       /\ (wpc = "exc_refresh" /\ wpc' = "final") => sess'.row.error # ""]_vars

\* a Task whose handler raised has ended failed with the exception text, and
\* the worker is back at its query
C20_Witness ==
    /\ wpc = "idle"
    /\ \E t \in TaskIds :
          /\ tasks[t].status = "failed" /\ tasks[t].error # ""
          /\ tasks[t].started_at /\ tasks[t].completed_at

\* the worker threads that are inside _process_task
InHandler ==
    (IF wpc # "none" /\ LoopPosition(wpc) = "handler" THEN 1 ELSE 0)
    + Cardinality({i \in 1..Len(orphans) : orphans[i].pc = "handler"})

\* C21: after any sequence of start() and stop() calls at most one worker
\* thread is executing a task handler
C21_OneWorker == InHandler <= 1

\* the thread that start() created is in a handler after a stop() and a
\* second start()
C21_Witness ==
    /\ running /\ wpc # "none" /\ LoopPosition(wpc) = "handler"
    /\ orphans # <<>>

\* a worker thread holds Task t in its iteration
HeldByWorker(t) ==
    (wpc # "none" /\ wtask = t) \/ \E i \in 1..Len(orphans) : orphans[i].task = t

\* C22: every Task that enters running reaches done or failed with
\* completed_at set, also when the worker is stopped or the process restarts
\* while it runs, and no Task is running while no worker thread holds it
C22_CrashSafe ==
    /\ \A t \in 1..MaxTasks :
          (t \in TaskIds /\ tasks[t].status = "running")
              ~> (t \in TaskIds /\ tasks[t].status \in {"done", "failed"}
                                /\ tasks[t].completed_at)
    /\ [](\A t \in TaskIds : tasks[t].status = "running" => HeldByWorker(t))

\* stop() was called while the worker thread is inside the handler of a
\* running Task
C22_Witness ==
    /\ ~running /\ wpc = "process"
    /\ tasks[wtask].status = "running"

\* C23: when the handler raised and the worker's re-check finds the Task
\* failed, the worker writes nothing to it but completed_at when that is not
\* set; otherwise it sets status failed with the exception text as error, and
\* its final commit changes no other column
C23_ExceptionRecheck ==
    [][/\ (wpc = "exc_refresh" /\ wpc' = "final") =>
             IF tasks[wtask].status = "failed"
             THEN sess'.dirty = {} /\ sess'.row = tasks[wtask]
             ELSE /\ sess'.dirty = {"status", "error"}
                  /\ sess'.row.status = "failed" /\ sess'.row.error = "exception"
       /\ (wpc = "final" /\ wpc' = "idle") =>
             \A a \in DOMAIN tasks[wtask] :
                 \/ tasks'[wtask][a] = tasks[wtask][a]
                 \/ a \in sess.dirty /\ tasks'[wtask][a] = sess.row[a]
                 \/ a = "completed_at" /\ ~sess.row.completed_at]_vars

\* the handler of a Task has raised, and a cancel has meanwhile set the Task
\* failed with its own result
C23_Witness ==
    /\ wpc = "exc_refresh"
    /\ tasks[wtask].status = "failed"
    /\ "interrupted" \in tasks[wtask].result_json

\* C24: when the row of the Task the worker holds is deleted by a force reset,
\* at any point of the iteration, the worker thread does not end: it gives the
\* Task up without writing to it and is back at its query for the oldest
\* queued Task, which it then claims
C24_DeletedTaskAbandoned ==
    /\ [][wpc # "none" => wpc' # "none"]_vars
    /\ [][\A t \in TaskIds : Deleted(t) => tasks'[t] = tasks[t]]_vars
    /\ (wtask # 0 /\ Deleted(wtask)) ~> (wpc = "idle" /\ wtask = 0)
    /\ (wpc = "idle" /\ Queued # {}) ~> (wpc = "claim" \/ Queued = {})

C24_Witness ==
    /\ wpc \in {"ok_refresh", "exc_refresh"} /\ Deleted(wtask)
    /\ \E t \in TaskIds : tasks[t].status = "queued"


\* C25: within one wait for the backend the number of reconnects after a failed
\* connection never exceeds max_retries (3): a connection failure below the
\* limit is counted and the loop connects again, and the failure that follows
\* the 3rd reconnect ends the wait with the exception
C25_BoundedReconnects ==
    /\ [](retry_count <= max_retries)
    /\ [][W_ConnError =>
            IF retry_count < max_retries
            THEN wpc' = "wait" /\ retry_count' = retry_count + 1
            ELSE wpc' = "exc_refresh"]_vars

C25_Witness ==
    /\ wpc = "wait" /\ retry_count = max_retries /\ ~timed_out
    /\ tasks[wtask].status = "running"


\* C26: a cancel or a global stop that has been requested reaches its commit,
\* whatever the backend does with the interrupt and clear-queue requests, and
\* the commit leaves every Task it targeted failed
C26_CancelNotBlocked ==
    /\ (api.op # "none" /\ \E t \in TaskIds : tasks[t].status \in {"queued", "running"})
          ~> (api.op = "none")
    /\ [][CancelWrite => tasks'[api.t].status = "failed"]_vars
    /\ [][StopWrite => \A t \in api.targets : tasks'[t].status = "failed"]_vars

C26_Witness ==
    /\ api.op = "clear_queue"
    /\ \E t \in TaskIds : tasks[t].status \in {"queued", "running"}


\* the entity a Task of this kind needs is missing when its handler starts
MissingPrerequisite(t) ==
    /\ wtask = t /\ wpc = "process"
    /\ \/ tasks[t].task_type = "GEN_8VIEWS" /\ players[tasks[t].item].status = "draft"
       \/ tasks[t].task_type = "SCENE_MERGE" /\ scene.status = "draft"
       \/ tasks[t].task_type = "GEN_VIDEO" /\ scene.merged_image_path = NoPath

\* C27: a handler that starts without its entity prerequisite (the player's
\* base image for GEN_8VIEWS, the Scene's base image for SCENE_MERGE, the
\* Scene's merged image for GEN_VIDEO) makes no upload and no submission: its
\* next step is the exception, and the Task ends failed with nothing submitted
C27_PrerequisiteBeforeSubmission ==
    /\ [][\A t \in TaskIds : MissingPrerequisite(t) =>
            /\ subs'[t] = subs[t]
            /\ job' = "none"
            /\ wpc' \in {"process", "exc_refresh"}]_vars
    /\ \A t \in 1..MaxTasks :
         (t \in TaskIds /\ MissingPrerequisite(t))
           ~> (t \in TaskIds /\ tasks[t].status = "failed" /\ tasks[t].completed_at
                /\ subs[t] = 0 /\ wtask # t)

C27_Witness ==
    /\ wpc = "final" /\ subs[wtask] = 0
    /\ sess.row.status = "failed" /\ sess.row.error = "exception"
    /\ \/ Kind = "GEN_8VIEWS" /\ players[Item].status = "draft"
       \/ Kind = "SCENE_MERGE" /\ scene.status = "draft"
       \/ Kind = "GEN_VIDEO" /\ scene.merged_image_path = NoPath


\* the worker is inside the step loop of _handle_scene_merge here and after
\* the step taken
InMergeLoop ==
    /\ wpc \in {"m_step", "m_submit", "wait", "post"}
    /\ wpc' \in {"m_step", "m_submit", "wait", "post"}
    /\ Kind = "SCENE_MERGE"

\* the step's backend job is submitted by this step
MergeJobSubmitted == wpc = "m_submit" /\ wpc' = "wait"

\* the step's backend job has completed with its output, and the step commits
MergeStepCommit == wpc = "post" /\ Kind = "SCENE_MERGE" /\ job = "active" /\ wpc' = "m_step"

\* C28: in a composite run the steps are taken one at a time in plan order and
\* their records are appended in plan order; the job of the first step that
\* runs gets the Scene base image as background, the job of a later step the
\* output of the step committed last; the current image and the Scene's
\* intermediate merged image change only in the commit that follows a completed
\* job, and a job is submitted only when none is in execution
C28_StepsInOrder ==
    /\ [](\A i, j \in 1..Len(merge_records) :
             i < j => merge_records[i] < merge_records[j])
    /\ [][InMergeLoop /\ midx' # midx => midx' = midx + 1]_vars
    /\ [][InMergeLoop /\ merge_records' # merge_records =>
             merge_records' = Append(merge_records, midx)]_vars
    /\ [][MergeJobSubmitted =>
             /\ job = "none"
             /\ current_img_path =
                   IF Len(merge_records) = 0 THEN Background
                   ELSE Artifact(merge_records[Len(merge_records)])]_vars
    /\ [][InMergeLoop /\ (current_img_path' # current_img_path
                           \/ scene'.merged_image_path # scene.merged_image_path)
             => /\ MergeStepCommit
                /\ current_img_path' = Artifact(midx)
                /\ scene'.merged_image_path = Artifact(midx)]_vars

\* the second step of a plan has been submitted on the output of the first
C28_Witness ==
    /\ wpc = "wait" /\ Kind = "SCENE_MERGE"
    /\ midx = 1 /\ merge_records = <<0, 1>>
    /\ current_img_path = Artifact(0)
    /\ scene.merged_image_path = Artifact(0)


\* _handle_scene_merge returns from its `if not players:` branch
NoPlayersReturn == wpc = "process" /\ Kind = "SCENE_MERGE" /\ wpc' = "ok_refresh"

\* C29: a SCENE_MERGE Task whose Scene links no character requests no plan and
\* submits no job; the Scene's merged image becomes its base image and its
\* status "completed" in the handler's one commit; the Task ends done with
\* completed_at set, unless a cancel or a global stop has marked it failed
C29_NoPlayersShortCircuit ==
    /\ [][NoPlayersReturn =>
             /\ scene'.merged_image_path = Background
             /\ scene'.status = "completed"
             /\ merge_plan' = "none" /\ steps' = <<>> /\ merge_records' = <<>>
             /\ subs' = subs /\ job' = job
             /\ tasks'[wtask].result_json = {"no_players", "merged_image_path"}
             /\ tasks'[wtask].progress = 100]_vars
    /\ [](\A t \in TaskIds : "no_players" \in tasks[t].result_json => subs[t] = 0)
    /\ [][\A t \in TaskIds :
             (wtask = t /\ wpc = "final" /\ wpc' = "idle"
                /\ "no_players" \in tasks[t].result_json /\ tasks[t].status # "failed")
             => tasks'[t].status = "done" /\ tasks'[t].completed_at]_vars

C29_Witness ==
    /\ wpc = "idle"
    /\ \E t \in TaskIds : /\ tasks[t].status = "done"
                          /\ tasks[t].result_json = {"no_players", "merged_image_path"}
                          /\ subs[t] = 0
    /\ scene.status = "completed" /\ scene.merged_image_path = Background


\* the worker leaves the image resolution of a step whose player has no image
NoImageStep == wpc = "m_submit" /\ steps[midx + 1] = "no_image" /\ wpc' # wpc

\* C30: a composite step whose character has no image at all is skipped: the
\* worker goes on to the next step of the plan with no job submitted, no record
\* appended, the current image and the Scene unchanged, and no exception
C30_NoImageSoftSkip ==
    [][NoImageStep =>
          /\ wpc' = "m_step" /\ midx' = midx + 1
          /\ subs' = subs /\ job' = job
          /\ current_img_path' = current_img_path
          /\ merge_records' = merge_records
          /\ scene' = scene
          /\ tasks' = tasks]_vars

\* after a first step skipped for lack of an image, the second step has been
\* submitted on the base image
C30_Witness ==
    /\ wpc = "wait" /\ Kind = "SCENE_MERGE"
    /\ steps = <<"no_image", "player">> /\ midx = 1
    /\ merge_records = <<1>>
    /\ current_img_path = Background
    /\ subs[wtask] = 1
    /\ tasks[wtask].status = "running"

\* ------------------------------------------------------------------- C31
InViewsWait == wpc \in {"views_wait", "views_next", "views_progress", "views_post"}

\* C31: in a multi-view job every view fetched for a finished save node is
\* published to the character (with the views collected so far) while the job
\* is still being waited for, unless the Task was failed meanwhile; a finished
\* node outside view_map or a view that cannot be fetched never sends the
\* handler to its failure path: the wait is left for the failure path only by
\* the retry limit of its except clause.
C31_BranchPublished ==
    /\ [](InViewsWait /\ tasks[wtask].status # "failed"
            => views.json \subseteq players[Item].views_json)
    /\ [][/\ wpc = "views_publish" /\ wpc' # wpc /\ tasks[wtask].status # "failed"
             => /\ last_node \in views.json
                /\ players'[Item].views_json = views.json
                /\ tasks'[wtask].result_json = {"views_json"}
                /\ job # "none"
          /\ wpc = "views_fetch" => wpc' \in {"views_fetch", "views_publish", "views_next"}
          /\ wpc = "views_wait" /\ wpc' = "exc_refresh" => retry_count >= max_retries]_vars

\* the wait has ended with one view published and another one left out
C31_Witness ==
    /\ wpc = "views_post"
    /\ tasks[wtask].status = "running"
    /\ players[Item].views_json # {}
    /\ views.done # views.json
    /\ players[Item].views_json = views.json

\* ------------------------------------------------------------------- C32
\* C32: progress 100 is stored only for a Task that is done: no row of the
\* Task table has progress 100 while its status is queued, running or failed
C32_HundredOnlyDone ==
    \A t \in TaskIds : tasks[t].progress = 100 => tasks[t].status = "done"

\* a video Task whose handler committed progress 100 was cancelled before the
\* worker marked it done, and has ended failed with progress 100
C32_Witness ==
    \E t \in TaskIds :
        /\ tasks[t].task_type = "GEN_VIDEO"
        /\ tasks[t].status = "failed" /\ tasks[t].completed_at
        /\ tasks[t].progress = 100
        /\ wpc = "idle"

\* ------------------------------------------------------------------- C33
\* the statuses in which a batch run leaves a character alone
TerminalFor(routine) == IF routine = "gen_base" THEN {"done", "ready"} ELSE {"done"}

\* the supervisor creates a Task for its current item
SupSubmitsForItem == sup.pc = "item" /\ sup'.pc = "poll"

PreviousStageDone(kind) ==
    /\ sup.task \in TaskIds
    /\ tasks[sup.task].status = "done"
    /\ tasks[sup.task].task_type = kind
    /\ tasks[sup.task].item = sup.i

\* C34: in the chain of one item the base-image Task is created only after the
\* item's prompt Task is done, the multi-view Task only for a character that
\* has a base image and, when it follows the base stage, after the base-image
\* Task is done; after a stage whose wait returned False (the Task failed, or
\* the wait timed out) no further Task is created for the item: the routine
\* goes to the next item or returns
C34_StagesInOrder ==
    [][/\ SupSubmitsForItem /\ sup.stage = "base" => PreviousStageDone("GEN_PROMPT")
       /\ SupSubmitsForItem /\ sup.stage = "views" => PreviousStageDone("GEN_BASE")
       /\ SupSubmitsForItem /\ sup'.stage = "views" => players[sup.i].status # "draft"
       /\ sup.pc = "refresh" /\ sup' # sup /\ tasks[sup.task].status # "done"
          => /\ ~sup.success
             /\ sup'.pc = "ended" \/ (sup'.pc = "item" /\ sup'.i = sup.i + 1 /\ sup'.stage = "")]_vars

\* the complete run waits for the multi-view Task of a character whose prompt
\* and base-image Tasks it created before and which are done
C34_Witness ==
    /\ sup.routine = "gen_complete" /\ sup.pc = "poll" /\ sup.stage = "views"
    /\ Len(tasks) = 3
    /\ \A t \in 1..3 : tasks[t].item = sup.i
    /\ tasks[1].task_type = "GEN_PROMPT" /\ tasks[1].status = "done"
    /\ tasks[2].task_type = "GEN_BASE" /\ tasks[2].status = "done"
    /\ tasks[3].task_type = "GEN_8VIEWS"

\* ------------------------------------------------------------------- C35
\* the worker's last commit for a Task that is failed
WorkerEndsFailed ==
    /\ wpc = "final" /\ wpc' # "final"
    /\ tasks'[wtask].status = "failed"

\* C35: a Task that ends failed (its handler raised, or it was cancelled while
\* it ran) leaves the characters, the scene and the videos as they were: the
\* worker's last commit for a failed Task changes no field of theirs
C35_FailedLeavesEntity ==
    [][WorkerEndsFailed => UNCHANGED entityVars]_vars

\* a multi-view Task cancelled after its job had ended is failed, and the
\* character it was for is done
C35_Witness ==
    \E t \in TaskIds :
        /\ tasks[t].task_type = "GEN_8VIEWS"
        /\ tasks[t].status = "failed" /\ tasks[t].completed_at
        /\ "Interrupted" \in tasks[t].result_json \/ tasks[t].error = ""
        /\ players[tasks[t].item].status = "done"
        /\ wpc = "idle"

\* ------------------------------------------------------------------- C36
\* the status of row t, "none" before the Task is created
StatusOf(t) == IF t \in TaskIds THEN tasks[t].status ELSE "none"

\* C36: a Task becomes done only by the last commit of the worker that holds
\* it; a Task whose handler raised is never done afterwards, and neither is a
\* Task that is failed when the worker re-reads it after the handler returned
C36_DoneOnlyAfterReturn ==
    /\ [][/\ \A t \in TaskIds :
                tasks[t].status # "done" /\ tasks'[t].status = "done"
                   => wtask = t /\ wpc = "final" /\ sess.row.status = "done"
          /\ wpc = "exc_refresh" /\ wpc' = "final" => sess'.row.status # "done"
          /\ wpc = "ok_refresh" /\ wpc' = "final" /\ tasks[wtask].status = "failed"
                => sess'.row.status # "done"]_vars
    /\ \A t \in 1..MaxTasks :
          [](wtask = t /\ wpc = "exc_refresh" => [](StatusOf(t) # "done"))
    /\ \A t \in 1..MaxTasks :
          [](wtask = t /\ wpc = "ok_refresh" /\ StatusOf(t) = "failed"
                => [](StatusOf(t) # "done"))

\* one Task is done and another, whose handler raised, is failed with the
\* text of its exception
C36_Witness ==
    \E t, u \in TaskIds :
        /\ tasks[t].status = "done" /\ tasks[t].completed_at
        /\ tasks[u].status = "failed" /\ tasks[u].error = "exception"
        /\ wpc = "idle"

\* ------------------------------------------------------------------- C37
\* C37: the cancel route writes to the Task table only for a Task it has read
\* as queued or running: a call for a done or failed Task, for an unknown id or
\* without id ends at its read and changes no row, and the write of a call
\* changes the row of the Task it names and no other
C37_CancelTerminalNoWrite ==
    [][/\ api.op = "none" /\ api'.op = "cancel"
          => /\ api'.t \in TaskIds
             /\ tasks[api'.t].status \in {"queued", "running"}
             /\ tasks' = tasks
       /\ api.op = "cancel" /\ api'.op = "none"
          => \A u \in TaskIds \ {api.t} : tasks'[u] = tasks[u]]_vars

\* a Task was cancelled and is failed, beside a Task that is done and whose
\* row a cancel leaves alone
C37_Witness ==
    /\ api.op = "none"
    /\ \E t, u \in TaskIds :
          /\ tasks[t].status = "done" /\ tasks[t].completed_at /\ tasks[t].progress = 100
          /\ tasks[u].status = "failed" /\ "interrupted" \in tasks[u].result_json

\* ------------------------------------------------------------------- C38
\* C38: a cancel reaches only the Task it names: the backend job of the
\* running Task is interrupted only when that Task has been marked failed, or
\* by a cancel call that is about to mark it failed, or by a global stop; a
\* cancel for another Task, or without id, leaves the job running
C38_CancelOnlyNamedTask ==
    (job = "interrupted" /\ wtask # 0)
        => \/ tasks[wtask].status = "failed"
           \/ api.op = "cancel" /\ api.t = wtask
           \/ api.op = "stop"

\* the wait of a running Task has ended on an interrupted job, with no route
\* in progress and the Task not cancelled
C38_Witness ==
    /\ wpc = "post" /\ job = "interrupted"
    /\ tasks[wtask].status = "running"
    /\ api.op = "none"

\* ------------------------------------------------------------------- C39
\* a global stop has been carried out: some Task bears its tag
StopHappened == \E u \in TaskIds : HasStopTag(tasks[u].result_json)

\* Task t has been started by the worker, or cancelled while queued
StartedOrCancelled(t) ==
    IF t \in TaskIds THEN tasks[t].started_at \/ tasks[t].status = "failed" ELSE FALSE

\* C39: a global stop is not latched: it marks failed the Tasks that its query
\* found queued or running and no other, it leaves the worker's running flag
\* and the worker's position as they are, and a Task that is queued after a
\* stop was carried out is started by the worker (unless it is cancelled
\* while queued)
C39_StopNotLatched ==
    /\ [][/\ api.op = "none" /\ api'.op = "stop"
             => api'.targets = {t \in TaskIds : tasks[t].status \in {"queued", "running"}}
          /\ api.op = "stop" /\ api'.op = "none"
             => /\ running' = running /\ wpc' = wpc
                /\ \A t \in TaskIds \ api.targets : tasks'[t] = tasks[t]]_vars
    /\ \A t \in 1..MaxTasks :
          (StopHappened /\ StatusOf(t) = "queued") ~> StartedOrCancelled(t)

\* a Task was stopped by a global stop, and a Task created after it was
\* started and is done
C39_Witness ==
    \E t, u \in TaskIds :
        /\ HasStopTag(tasks[u].result_json) /\ tasks[u].status = "failed"
        /\ tasks[t].created_at > tasks[u].created_at
        /\ tasks[t].started_at /\ tasks[t].status = "done"
        /\ running /\ wpc = "idle"

\* ------------------------------------------------------------------- C40
\* the Scene has its base image and an intermediate merged image, its merge
\* has not finished, no Task is queued or running and the worker holds none
PartiallyMerged ==
    /\ scene.status = "generated"
    /\ scene.merged_image_path # NoPath
    /\ \A t \in TaskIds : tasks[t].status \in {"done", "failed"}
    /\ wtask = 0

\* C40: the batch merge run does not pass over a partially merged Scene as
\* already merged: at the Scene's turn it either creates a SCENE_MERGE Task or
\* passes over the Scene for its players
C40_PartialNotSkippedAsMerged ==
    [][(sup.routine = MergeRoutine /\ sup.pc = "item" /\ sup.i = 1 /\ sup' # sup
        /\ PartiallyMerged)
          => sup'.skipped # "merged"]_vars

\* the batch merge run has passed over, as merged, the Scene that a failed
\* SCENE_MERGE Task left with the image of its first step
C40_Witness ==
    /\ sup.routine = MergeRoutine /\ sup.skipped = "merged"
    /\ scene.status = "generated"
    /\ \E t \in TaskIds :
          /\ tasks[t].task_type = "SCENE_MERGE" /\ tasks[t].status = "failed"
          /\ "merged_image_path" \in tasks[t].result_json
    /\ wpc = "idle"

====
